---- MODULE Spec2Model ----
(***************************************************************************)
(* A model of the travel scheduler's persistence facade (TravelDatabase,   *)
(* src/travel_scheduler/database.py) and of its orchestrator               *)
(* (TravelScheduler, src/travel_scheduler/scheduler.py), and of the front  *)
(* ends that drive it: the menu loops of main.py, apicheck.py and          *)
(* src/travel_scheduler.py, and the two Streamlit dashboards.              *)
(*                                                                         *)
(* Text values are TLA+ strings.  A prompt built by an f-string is the     *)
(* sequence of its segments (template text and interpolated values), so    *)
(* that "the prompt contains the value v" is "v is one of its segments".   *)
(* A document collection is the sequence of its documents in insertion     *)
(* (natural) order.  The wall clock is counted in ticks, one tick being    *)
(* the resolution at which the store keeps a datetime.                     *)
(***************************************************************************)
EXTENDS Integers, Sequences, FiniteSets, TLC

VARIABLES
    db,                \* TravelScheduler.db: TRUE when a TravelDatabase is attached, FALSE for None
    clock,             \* the value of the last datetime.utcnow() read, in ticks
    user_preferences,  \* the user_preferences collection
    trip_history,      \* the trip_history collection
    agent_memory,      \* the agent_memory collection
    last,              \* the operation that ran last: its name, arguments, external calls and outcome
    ui,                \* the front end in use: which one, where it stands, its environment and what it shows
    travel_data        \* the lists the TravelKnowledgeHelper of the session holds

vars == <<db, clock, user_preferences, trip_history, agent_memory, last, ui, travel_data>>

----------------------------------------------------------------------------
(* Bounds of the model *)

\* the clock may advance this many ticks
MaxTicks == 2
\* ticks in one clock second
TicksPerSecond == 2
\* documents a collection may hold before the model stops writing to it
MaxTrips == 2
MaxConvs == 1
\* documents a collection may hold when a run starts on a store left by earlier runs
MaxStored == 2
\* entries the chat view of a dashboard keeps in its browser session
MaxChat == 2

----------------------------------------------------------------------------
(* Values *)

DEFAULT_USER == "default_user"
\* user ids handed to the store directly; some contain underscores and digits
UserIds == {DEFAULT_USER, "u", "u_1"}
\* the users of the preference operations
PrefUserIds == {DEFAULT_USER, "test_user_123"}

Responses == {"R1", "R2"}
AgentNames == {"itinerary", "advisor", "memory"}

Min(a, b) == IF a < b THEN a ELSE b
Range(s) == {s[i] : i \in 1..Len(s)}

----------------------------------------------------------------------------
(* The clock: datetime.utcnow() and strftime('%Y%m%d_%H%M%S') *)

\* the values a clock read may return after a read that returned t
Utcnow(t) == {u \in {t, t + 1} : u <= MaxTicks}

SecondOf(t) == t \div TicksPerSecond

DigitChars == <<"0", "1", "2", "3", "4", "5", "6", "7", "8", "9">>
TwoDigits(n) == DigitChars[((n \div 10) % 10) + 1] \o DigitChars[(n % 10) + 1]

\* the %Y%m%d rendering of the UTC day inside which the modelled clock values lie
Ymd == "20250601"

\* strftime('%Y%m%d_%H%M%S'): every field zero-padded to a fixed width
Strftime(t) ==
    LET s == SecondOf(t)
    IN  Ymd \o "_" \o TwoDigits(s \div 3600) \o TwoDigits((s \div 60) % 60)
            \o TwoDigits(s % 60)

----------------------------------------------------------------------------
(* Document collection primitives (pymongo) *)

\* insert_one: the document is appended, nothing else changes
InsertOne(coll, doc) == Append(coll, doc)

\* a filter document {field: value, ...} matches the documents that have these values
Matches(doc, filter) == \A k \in DOMAIN filter : doc[k] = filter[k]

\* find(filter): the matching documents in natural order
Matching(coll, filter) == SelectSeq(coll, LAMBDA d : Matches(d, filter))

\* index of the first document of coll that matches filter, 0 when there is none
FirstIndex(coll, filter) ==
    IF \E i \in 1..Len(coll) : Matches(coll[i], filter)
    THEN CHOOSE i \in 1..Len(coll) :
            Matches(coll[i], filter) /\ \A j \in 1..(i - 1) : ~Matches(coll[j], filter)
    ELSE 0

\* replace_one(filter, doc, upsert=True): the first match is replaced in place,
\* and the document is inserted when nothing matches
ReplaceOneUpsert(coll, filter, doc) ==
    LET i == FirstIndex(coll, filter)
    IN  IF i = 0 THEN Append(coll, doc) ELSE [coll EXCEPT ![i] = doc]

\* find_one(filter): the first match in natural order
HasOne(coll, filter) == FirstIndex(coll, filter) # 0
FindOne(coll, filter) == coll[FirstIndex(coll, filter)]

Perms(n) == {f \in [1..n -> 1..n] : \A i, j \in 1..n : f[i] = f[j] => i = j}

\* cursor.sort(key, -1): every ordering of docs that is descending in field key; the
\* store does not define the relative order of documents with equal keys
SortDesc(docs, key) ==
    LET n == Len(docs)
    IN  {[i \in 1..n |-> docs[f[i]]] : f \in
            {g \in Perms(n) : \A i \in 1..(n - 1) : docs[g[i]][key] >= docs[g[i + 1]][key]}}

\* cursor.limit(n): the first n documents; limit(0) is no limit
Limit(docs, n) == IF n = 0 THEN docs ELSE SubSeq(docs, 1, Min(n, Len(docs)))

----------------------------------------------------------------------------
(* TravelDatabase: every data operation runs inside try/except Exception *)

\* str(ObjectId): the decimal rendering of the insertion number the model uses as _id
ObjectIdStr(n) == TwoDigits(n)

\* a method body with no except clause: an exception raised inside it leaves the method
NoExcept(ok, value, fallback) ==
    IF ok THEN [outcome |-> "return", ret |-> value]
    ELSE [outcome |-> "raise", ret |-> fallback]

\* try: ... return value / except Exception: print(...); return fallback
TryExcept(ok, value, fallback) ==
    [outcome |-> "return", ret |-> IF ok THEN value ELSE fallback]

\* the document save_user_preferences builds; now1, now2 are its two clock reads
PreferencesDocument(user_id, preferences, now1, now2) ==
    [user_id |-> user_id, preferences |-> preferences,
     created_at |-> now1, updated_at |-> now2]

\* a save that inserts a new document on every call
SaveUserPreferencesInsert(coll, user_id, preferences, now1, now2, ok) ==
    IF ok
    THEN InsertOne(coll, PreferencesDocument(user_id, preferences, now1, now2))
    ELSE coll

\* the collection after save_user_preferences; ok is FALSE when replace_one raises
SaveUserPreferences(coll, user_id, preferences, now1, now2, ok) ==
    IF ok
    THEN ReplaceOneUpsert(coll, [user_id |-> user_id],
                          PreferencesDocument(user_id, preferences, now1, now2))
    ELSE coll

\* Optional values: None is the empty sequence, a present value v is <<v>>
None == << >>
Some(v) == <<v>>

\* the value get_user_preferences computes when find_one does not raise:
\* the preferences of the first document of the user, or None
GetUserPreferences(coll, user_id) ==
    IF HasOne(coll, [user_id |-> user_id])
    THEN Some(FindOne(coll, [user_id |-> user_id]).preferences)
    ELSE None

\* f"{user_id}_{datetime.utcnow().strftime('%Y%m%d_%H%M%S')}"
TripId(user_id, now) == user_id \o "_" \o Strftime(now)

\* the document save_trip_history builds; now1 is the clock read of the trip_id,
\* now2 the separate clock read of created_at; oid is the _id insert_one assigns
TripDocument(oid, user_id, trip_data, now1, now2) ==
    [_id |-> oid,
     user_id |-> user_id,
     trip_id |-> TripId(user_id, now1),
     destination |-> trip_data.destination,
     start_date |-> trip_data.start_date,
     end_date |-> trip_data.end_date,
     preferences |-> trip_data.preferences,
     budget |-> trip_data.budget,
     itinerary |-> trip_data.itinerary,
     created_at |-> now2]

\* a save that replaces the stored trip with the same trip_id (last write wins)
SaveTripHistoryUpsert(coll, user_id, trip_data, now1, now2, ok) ==
    IF ok
    THEN ReplaceOneUpsert(coll, [trip_id |-> TripId(user_id, now1)],
                          TripDocument(Len(coll) + 1, user_id, trip_data, now1, now2))
    ELSE coll

\* the collection after save_trip_history; ok is FALSE when insert_one raises
SaveTripHistory(coll, user_id, trip_data, now1, now2, ok) ==
    IF ok
    THEN InsertOne(coll, TripDocument(Len(coll) + 1, user_id, trip_data, now1, now2))
    ELSE coll

\* trip["_id"] = str(trip["_id"]) for every returned document
StrIds(docs) == [i \in 1..Len(docs) |-> [docs[i] EXCEPT !._id = ObjectIdStr(@)]]

\* a read that returns the user's trips in insertion order, oldest first
GetTripHistoryUnsorted(coll, user_id, limit) ==
    {StrIds(Limit(Matching(coll, [user_id |-> user_id]), limit))}

\* the lists get_trip_history may return when the query does not raise:
\* find({"user_id": user_id}).sort("created_at", -1).limit(limit)
GetTripHistory(coll, user_id, limit) ==
    {StrIds(Limit(docs, limit)) :
        docs \in SortDesc(Matching(coll, [user_id |-> user_id]), "created_at")}

\* the document save_agent_memory builds
MemoryDocument(oid, user_id, agent_type, conversation, response, now) ==
    [_id |-> oid, user_id |-> user_id, agent_type |-> agent_type,
     conversation |-> conversation, response |-> response, timestamp |-> now]

\* a write that stores the exchange twice
SaveAgentMemoryTwice(coll, user_id, agent_type, conversation, response, now, ok) ==
    IF ok
    THEN LET doc == MemoryDocument(Len(coll) + 1, user_id, agent_type, conversation,
                                   response, now)
         IN  InsertOne(InsertOne(coll, doc), [doc EXCEPT !._id = Len(coll) + 2])
    ELSE coll

\* the collection after save_agent_memory; ok is FALSE when insert_one raises
SaveAgentMemory(coll, user_id, agent_type, conversation, response, now, ok) ==
    IF ok
    THEN InsertOne(coll, MemoryDocument(Len(coll) + 1, user_id, agent_type,
                                        conversation, response, now))
    ELSE coll

\* the lists get_agent_memory may return when the query does not raise; agent_type
\* is "None" when the argument is omitted, and a falsy agent_type ("" as well)
\* adds no filter
GetAgentMemory(coll, user_id, agent_type, limit) ==
    LET query == IF agent_type \in {"None", ""}
                 THEN [user_id |-> user_id]
                 ELSE [user_id |-> user_id, agent_type |-> agent_type]
    IN  {StrIds(Limit(docs, limit)) :
            docs \in SortDesc(Matching(coll, query), "timestamp")}

\* the dictionary get_database_stats returns
GetDatabaseStats(prefs, trips, convs, ok) ==
    IF ok
    THEN [total_users |-> Len(prefs), total_trips |-> Len(trips),
          total_conversations |-> Len(convs), connection_status |-> "Connected"]
    ELSE [error |-> "str(e)", connection_status |-> "Disconnected"]

\* the characters of the texts that searches, front ends and helpers read
Chars(s) ==
    CASE s = "" -> << >>
      [] s = "Paris, France" ->
            <<"P", "a", "r", "i", "s", ",", " ", "F", "r", "a", "n", "c", "e">>
      [] s = "Rome" -> <<"R", "o", "m", "e">>
      [] s = "par" -> <<"p", "a", "r">>
      [] s = "." -> <<".">>
      [] s = "(" -> <<"(">>
      [] s = "memory" -> <<"m", "e", "m", "o", "r", "y">>
      [] s = "hot" -> <<"h", "o", "t">>
      [] s = "sunny" -> <<"s", "u", "n", "n", "y">>
      [] s = "cold" -> <<"c", "o", "l", "d">>
      [] s = "snow" -> <<"s", "n", "o", "w">>
      [] s = "rain" -> <<"r", "a", "i", "n">>
      [] s = "Hot and sunny" ->
            <<"H", "o", "t", " ", "a", "n", "d", " ", "s", "u", "n", "n", "y">>
      [] s = "HOT days, cold nights" ->
            <<"H", "O", "T", " ", "d", "a", "y", "s", ",", " ",
              "c", "o", "l", "d", " ", "n", "i", "g", "h", "t", "s">>
      [] s = "Sunny, then rain" ->
            <<"S", "u", "n", "n", "y", ",", " ", "t", "h", "e", "n", " ", "r", "a", "i", "n">>
      [] s = "Cold" -> <<"C", "o", "l", "d">>
      [] s = "light snow" -> <<"l", "i", "g", "h", "t", " ", "s", "n", "o", "w">>
      [] s = "Snow and rain" ->
            <<"S", "n", "o", "w", " ", "a", "n", "d", " ", "r", "a", "i", "n">>
      [] s = "Light Rain" -> <<"L", "i", "g", "h", "t", " ", "R", "a", "i", "n">>
      [] s = "photo" -> <<"p", "h", "o", "t", "o">>
      [] s = "mild" -> <<"m", "i", "l", "d">>
      [] s = "London" -> <<"L", "o", "n", "d", "o", "n">>
      [] s = "Swindon" -> <<"S", "w", "i", "n", "d", "o", "n">>
      [] s = "GB" -> <<"G", "B">>
      [] s = "light rain" -> <<"l", "i", "g", "h", "t", " ", "r", "a", "i", "n">>
      [] s = "thunderstorm" -> <<"t", "h", "u", "n", "d", "e", "r", "s", "t", "o", "r", "m">>
      [] s = "heavy snow" -> <<"h", "e", "a", "v", "y", " ", "s", "n", "o", "w">>
      [] s = "high winds" -> <<"h", "i", "g", "h", " ", "w", "i", "n", "d", "s">>
      [] s = "clear sky" -> <<"c", "l", "e", "a", "r", " ", "s", "k", "y">>
      [] s = "rain and snow" ->
            <<"r", "a", "i", "n", " ", "a", "n", "d", " ", "s", "n", "o", "w">>
      [] s = "storm" -> <<"s", "t", "o", "r", "m">>
      [] s = "wind" -> <<"w", "i", "n", "d">>
      [] s = "high" -> <<"h", "i", "g", "h">>
      [] s = "Error" -> <<"E", "r", "r", "o", "r">>
      [] s = "Current Weather in " ->
            <<"C", "u", "r", "r", "e", "n", "t", " ", "W", "e", "a", "t", "h", "e", "r", " ",
              "i", "n", " ">>
      [] s = ", " -> <<",", " ">>
      [] s = ":\n            Temperature: " ->
            <<":", "\n", " ", " ", " ", " ", " ", " ", " ", " ", " ", " ", " ", " ", "T", "e",
              "m", "p", "e", "r", "a", "t", "u", "r", "e", ":", " ">>
      [] s = "*C (feels like " ->
            <<"*", "C", " ", "(", "f", "e", "e", "l", "s", " ", "l", "i", "k", "e", " ">>
      [] s = "*C)\n            Condition: " ->
            <<"*", "C", ")", "\n", " ", " ", " ", " ", " ", " ", " ", " ", " ", " ", " ", " ",
              "C", "o", "n", "d", "i", "t", "i", "o", "n", ":", " ">>
      [] s = "\n            Humidity: " ->
            <<"\n", " ", " ", " ", " ", " ", " ", " ", " ", " ", " ", " ", " ", "H", "u", "m",
              "i", "d", "i", "t", "y", ":", " ">>
      [] s = "%\n            Wind Speed: " ->
            <<"%", "\n", " ", " ", " ", " ", " ", " ", " ", " ", " ", " ", " ", " ", "W", "i",
              "n", "d", " ", "S", "p", "e", "e", "d", ":", " ">>
      [] s = " m/s" -> <<" ", "m", "/", "s">>
      [] s = "Error getting weather data: " ->
            <<"E", "r", "r", "o", "r", " ", "g", "e", "t", "t", "i", "n", "g", " ", "w", "e",
              "a", "t", "h", "e", "r", " ", "d", "a", "t", "a", ":", " ">>
      [] s = "Error getting forecast data: " ->
            <<"E", "r", "r", "o", "r", " ", "g", "e", "t", "t", "i", "n", "g", " ", "f", "o",
              "r", "e", "c", "a", "s", "t", " ", "d", "a", "t", "a", ":", " ">>
      [] s = "Connection refused" ->
            <<"C", "o", "n", "n", "e", "c", "t", "i", "o", "n", " ", "r", "e", "f", "u", "s",
              "e", "d">>
      [] s = "404 Client Error: Not Found" ->
            <<"4", "0", "4", " ", "C", "l", "i", "e", "n", "t", " ", "E", "r", "r", "o", "r",
              ":", " ", "N", "o", "t", " ", "F", "o", "u", "n", "d">>
      [] s = "Expecting value" ->
            <<"E", "x", "p", "e", "c", "t", "i", "n", "g", " ", "v", "a", "l", "u", "e">>
      [] s = "'main'" -> <<"'", "m", "a", "i", "n", "'">>
      [] s = "2025-06-" -> <<"2", "0", "2", "5", "-", "0", "6", "-">>
      [] s = ":00:00" -> <<":", "0", "0", ":", "0", "0">>

RECURSIVE Join(_)
\* the string made of the characters cs
Join(cs) == IF cs = << >> THEN "" ELSE Head(cs) \o Join(Tail(cs))

UpperLetters ==
    <<"A", "B", "C", "D", "E", "F", "G", "H", "I", "J", "K", "L", "M",
      "N", "O", "P", "Q", "R", "S", "T", "U", "V", "W", "X", "Y", "Z">>
LowerLetters ==
    <<"a", "b", "c", "d", "e", "f", "g", "h", "i", "j", "k", "l", "m",
      "n", "o", "p", "q", "r", "s", "t", "u", "v", "w", "x", "y", "z">>

\* case folding of one character ($options "i", str.lower)
Lower(c) ==
    IF \E i \in 1..26 : UpperLetters[i] = c
    THEN LowerLetters[CHOOSE i \in 1..26 : UpperLetters[i] = c]
    ELSE c

\* whether the store accepts the query as a regular expression; of the patterns
\* modelled (literals, "." and "("), one with an unclosed group is rejected
RegexValid(query) == \A i \in 1..Len(Chars(query)) : Chars(query)[i] # "("

\* {"$regex": query, "$options": "i"}: the pattern matches somewhere in text;
\* "." matches any character, every other character matches itself in either case
RegexSearch(query, text) ==
    LET q == Chars(query)
        t == Chars(text)
    IN  \E k \in 0..(Len(t) - Len(q)) :
            \A i \in 1..Len(q) : q[i] = "." \/ Lower(q[i]) = Lower(t[k + i])

\* the list search_destinations returns when find does not raise:
\* find({"destination": {"$regex": query, "$options": "i"}}).limit(limit)
SearchDestinations(coll, query, limit) ==
    StrIds(Limit(SelectSeq(coll, LAMBDA d : RegexSearch(query, d.destination)), limit))

----------------------------------------------------------------------------
(* TravelDatabase methods called directly (as test_database_connection does) *)

Stores == <<user_preferences, trip_history, agent_memory>>

\* one external call of an operation: what was called, with what, whether it came
\* back without raising, and what it gave back
Call(fn, arg, ok, out) == [fn |-> fn, arg |-> arg, ok |-> ok, out |-> out]

\* the record of an operation that ran: r is what its try/except produced
Ran(op, args, calls, r) ==
    [op |-> op, args |-> args, calls |-> calls, outcome |-> r.outcome, ret |-> r.ret]

save_user_preferences(user_id, preferences, ok) ==
    \E now1 \in Utcnow(clock) : \E now2 \in Utcnow(now1) :
        /\ clock' = now2
        /\ user_preferences' =
              SaveUserPreferences(user_preferences, user_id, preferences, now1, now2, ok)
        /\ last' = Ran("save_user_preferences", <<user_id, preferences>>,
                       <<Call("user_preferences.replace_one", user_id, ok, "")>>,
                       TryExcept(ok, TRUE, FALSE))
        /\ UNCHANGED <<db, trip_history, agent_memory, ui, travel_data>>

get_user_preferences(user_id, ok) ==
    /\ last' = Ran("get_user_preferences", <<user_id>>,
                   <<Call("user_preferences.find_one", user_id, ok, "")>>,
                   TryExcept(ok, GetUserPreferences(user_preferences, user_id), None))
    /\ UNCHANGED <<db, clock, Stores, ui, travel_data>>

save_trip_history(user_id, trip_data, ok) ==
    \E now1 \in Utcnow(clock) : \E now2 \in Utcnow(now1) :
        /\ Len(trip_history) < MaxTrips
        /\ clock' = now2
        /\ trip_history' = SaveTripHistory(trip_history, user_id, trip_data, now1, now2, ok)
        /\ last' = Ran("save_trip_history", <<user_id, trip_data>>,
                       <<Call("trip_history.insert_one", user_id, ok, "")>>,
                       TryExcept(ok, TRUE, FALSE))
        /\ UNCHANGED <<db, user_preferences, agent_memory, ui, travel_data>>

get_trip_history(user_id, limit, ok) ==
    \E trips \in GetTripHistory(trip_history, user_id, limit) :
        /\ last' = Ran("get_trip_history", <<user_id, limit>>,
                       <<Call("trip_history.find", user_id, ok, "")>>,
                       TryExcept(ok, trips, << >>))
        /\ UNCHANGED <<db, clock, Stores, ui, travel_data>>

save_agent_memory(user_id, agent_type, conversation, response, ok) ==
    \E now \in Utcnow(clock) :
        /\ Len(agent_memory) < MaxConvs
        /\ clock' = now
        /\ agent_memory' = SaveAgentMemory(agent_memory, user_id, agent_type,
                                           conversation, response, now, ok)
        /\ last' = Ran("save_agent_memory",
                       <<user_id, agent_type, conversation, response>>,
                       <<Call("agent_memory.insert_one", user_id, ok, "")>>,
                       TryExcept(ok, TRUE, FALSE))
        /\ UNCHANGED <<db, user_preferences, trip_history, ui, travel_data>>

get_agent_memory(user_id, agent_type, limit, ok) ==
    \E conversations \in GetAgentMemory(agent_memory, user_id, agent_type, limit) :
        /\ last' = Ran("get_agent_memory", <<user_id, agent_type, limit>>,
                       <<Call("agent_memory.find", user_id, ok, "")>>,
                       TryExcept(ok, conversations, << >>))
        /\ UNCHANGED <<db, clock, Stores, ui, travel_data>>

\* get_database_stats has its own try/except and returns a dictionary either way
db_get_database_stats(ok) ==
    /\ last' = Ran("db.get_database_stats", << >>,
                   <<Call("count_documents", "", ok, "")>>,
                   TryExcept(ok,
                             GetDatabaseStats(user_preferences, trip_history,
                                              agent_memory, TRUE),
                             GetDatabaseStats(user_preferences, trip_history,
                                              agent_memory, FALSE)))
    /\ UNCHANGED <<db, clock, Stores, ui, travel_data>>

\* find raises for a query the store rejects as a regular expression
search_destinations(query, limit, ok) ==
    /\ last' = Ran("search_destinations", <<query, limit>>,
                   <<Call("trip_history.find", query, ok /\ RegexValid(query), "")>>,
                   TryExcept(ok /\ RegexValid(query),
                             SearchDestinations(trip_history, query, limit), << >>))
    /\ UNCHANGED <<db, clock, Stores, ui, travel_data>>

\* time passes between two operations
Tick ==
    /\ clock < MaxTicks
    /\ clock' = clock + 1
    /\ UNCHANGED <<db, Stores, last, ui, travel_data>>

----------------------------------------------------------------------------
(* TravelScheduler: prompt, one agent run, then the store calls *)


AgentFns == {"itinerary_agent.run", "advisor_agent.run", "memory_agent.run"}

\* the i-th store call of an operation is made when no earlier one raised
Reached(results, i) == \A j \in 1..(i - 1) : results[j].outcome = "return"

AllReturned(results) == \A j \in 1..Len(results) : results[j].outcome = "return"

\* the calls an operation made: those before calls[k] were made anyway, calls[k] and
\* the later ones are the store calls whose results are given
MadeCalls(before, calls, results) ==
    before \o SubSeq(calls, 1, Cardinality({i \in 1..Len(calls) : Reached(results, i)}))

\* the record of an operation whose agent run returned content: it returns
\* content unless one of its store calls raised
Completed(op, args, before, calls, results, content) ==
    [op |-> op, args |-> args, calls |-> MadeCalls(before, calls, results),
     outcome |-> IF AllReturned(results) THEN "return" ELSE "raise",
     ret |-> IF AllReturned(results) THEN content ELSE "Exception"]

\* an agent run that raises after the conversation was already written
AgentRaisedAfterWrite(op, args, before, fn, prompt) ==
    /\ last' = [op |-> op, args |-> args,
                calls |-> Append(before, Call(fn, prompt, FALSE, "Exception")),
                outcome |-> "raise", ret |-> "Exception"]
    /\ agent_memory' = IF db /\ Len(agent_memory) < MaxConvs
                       THEN SaveAgentMemory(agent_memory, DEFAULT_USER, "advisor", prompt,
                                            "Exception", clock, TRUE)
                       ELSE agent_memory
    /\ UNCHANGED <<db, clock, user_preferences, trip_history>>

\* the agent run raised: nothing after it in the method runs
AgentRaised(op, args, before, fn, prompt) ==
    /\ last' = [op |-> op, args |-> args,
                calls |-> Append(before, Call(fn, prompt, FALSE, "Exception")),
                outcome |-> "raise", ret |-> "Exception"]
    /\ UNCHANGED <<db, clock, Stores>>

\* a method without the `if self.db:` guard: it calls save_agent_memory on None
NoStoreUnguarded(op, args, fn, prompt, content) ==
    /\ last' = [op |-> op, args |-> args,
                calls |-> <<Call(fn, prompt, TRUE, content),
                            Call("save_agent_memory", << >>, FALSE, "AttributeError")>>,
                outcome |-> "raise", ret |-> "AttributeError"]
    /\ UNCHANGED <<db, clock, Stores>>

\* self.db is None: the text is returned and no store call is made
NoStore(op, args, fn, prompt, content) ==
    /\ last' = Completed(op, args, <<Call(fn, prompt, TRUE, content)>>, << >>, << >>, content)
    /\ UNCHANGED <<db, clock, Stores>>

\* a prompt template that leaves the budget out
PlanPromptNoBudget(destination, start_date, end_date, preferences, budget) ==
    <<"Plan a comprehensive travel itinerary with these details: Destination:",
      destination, "Travel Dates:", start_date, "to", end_date,
      "Preferences:", preferences,
      "Please use your weather tools ... Remember this conversation for future trip planning assistance.">>

\* the f-string of plan_complete_trip
PlanPrompt(destination, start_date, end_date, preferences, budget) ==
    <<"Plan a comprehensive travel itinerary with these details: Destination:",
      destination, "Travel Dates:", start_date, "to", end_date,
      "Preferences:", preferences, "Budget:", budget,
      "Please use your weather tools ... Remember this conversation for future trip planning assistance.">>

plan_complete_trip(destination, start_date, end_date, preferences, budget, content) ==
    LET prompt == PlanPrompt(destination, start_date, end_date, preferences, budget)
        args == <<destination, start_date, end_date, preferences, budget>>
        fn == "itinerary_agent.run"
    IN  \E raised \in BOOLEAN :
        IF raised THEN AgentRaised("plan_complete_trip", args, << >>, fn, prompt)
        ELSE IF ~db THEN NoStore("plan_complete_trip", args, fn, prompt, content)
        ELSE \E ok1, ok2 \in BOOLEAN :
             \E now1 \in Utcnow(clock) : \E now2 \in Utcnow(now1) : \E now3 \in Utcnow(now2) :
             LET trip_data == [destination |-> destination, start_date |-> start_date,
                               end_date |-> end_date, preferences |-> preferences,
                               budget |-> budget, itinerary |-> content]
                 results == <<TryExcept(ok1, TRUE, FALSE), TryExcept(ok2, TRUE, FALSE)>>
                 calls == <<Call("save_trip_history", <<DEFAULT_USER, trip_data>>, ok1,
                                 results[1].ret),
                            Call("save_agent_memory",
                                 <<DEFAULT_USER, "itinerary", prompt, content>>, ok2,
                                 results[2].ret)>>
             IN  /\ Len(trip_history) < MaxTrips
                 /\ Len(agent_memory) < MaxConvs
                 /\ trip_history' =
                       SaveTripHistory(trip_history, DEFAULT_USER, trip_data, now1, now2, ok1)
                 /\ agent_memory' =
                       IF Reached(results, 2)
                       THEN SaveAgentMemory(agent_memory, DEFAULT_USER, "itinerary",
                                            prompt, content, now3, ok2)
                       ELSE agent_memory
                 /\ clock' = IF Reached(results, 2) THEN now3 ELSE now2
                 /\ last' = Completed("plan_complete_trip", args,
                                      <<Call(fn, prompt, TRUE, content)>>, calls, results, content)
                 /\ UNCHANGED <<db, user_preferences>>

\* the f-string of get_destination_recommendations
RecommendPrompt(preferences, season, budget, duration) ==
    <<"Based on my travel profile and preferences, recommend the best destinations: Preferences:",
      preferences, "Season:", season, "Budget:", budget, "Duration:", duration,
      "Please: ... Remember my preferences for future recommendations.">>

get_destination_recommendations(preferences, season, budget, duration, content) ==
    LET prompt == RecommendPrompt(preferences, season, budget, duration)
        args == <<preferences, season, budget, duration>>
        fn == "advisor_agent.run"
    IN  \E raised \in BOOLEAN :
        IF raised THEN AgentRaised("get_destination_recommendations", args, << >>, fn, prompt)
        ELSE IF ~db
        THEN NoStore("get_destination_recommendations", args, fn, prompt, content)
        ELSE \E ok1, ok2 \in BOOLEAN :
             \E now1 \in Utcnow(clock) : \E now2 \in Utcnow(now1) : \E now3 \in Utcnow(now2) :
             LET user_prefs == [preferences |-> preferences, season |-> season,
                                budget |-> budget, duration |-> duration]
                 results == <<TryExcept(ok1, TRUE, FALSE), TryExcept(ok2, TRUE, FALSE)>>
                 calls == <<Call("save_user_preferences", <<DEFAULT_USER, user_prefs>>, ok1,
                                 results[1].ret),
                            Call("save_agent_memory",
                                 <<DEFAULT_USER, "advisor", prompt, content>>, ok2,
                                 results[2].ret)>>
             IN  /\ Len(agent_memory) < MaxConvs
                 /\ user_preferences' =
                       SaveUserPreferences(user_preferences, DEFAULT_USER, user_prefs,
                                           now1, now2, ok1)
                 /\ agent_memory' =
                       IF Reached(results, 2)
                       THEN SaveAgentMemory(agent_memory, DEFAULT_USER, "advisor",
                                            prompt, content, now3, ok2)
                       ELSE agent_memory
                 /\ clock' = IF Reached(results, 2) THEN now3 ELSE now2
                 /\ last' = Completed("get_destination_recommendations", args,
                                      <<Call(fn, prompt, TRUE, content)>>, calls, results, content)
                 /\ UNCHANGED <<db, trip_history>>

\* the tail shared by the operations whose only store call is save_agent_memory
RunAndRemember(op, args, fn, agent_type, prompt, content) ==
    \E raised \in BOOLEAN :
        IF raised THEN AgentRaised(op, args, << >>, fn, prompt)
        ELSE IF ~db THEN NoStore(op, args, fn, prompt, content)
        ELSE \E ok \in BOOLEAN : \E now \in Utcnow(clock) :
             /\ Len(agent_memory) < MaxConvs
             /\ agent_memory' = SaveAgentMemory(agent_memory, DEFAULT_USER, agent_type,
                                                prompt, content, now, ok)
             /\ clock' = now
             /\ last' = Completed(op, args, <<Call(fn, prompt, TRUE, content)>>,
                                  <<Call("save_agent_memory",
                                         <<DEFAULT_USER, agent_type, prompt, content>>, ok,
                                         TryExcept(ok, TRUE, FALSE).ret)>>,
                                  <<TryExcept(ok, TRUE, FALSE)>>, content)
             /\ UNCHANGED <<db, user_preferences, trip_history>>

\* the f-string of get_travel_tips
TipsPrompt(destination, travel_style) ==
    <<"Provide expert travel tips for", destination, "Travel Style:", travel_style,
      "Please check current weather and provide tips on: ... Remember my travel style preferences.">>

get_travel_tips(destination, travel_style, content) ==
    RunAndRemember("get_travel_tips", <<destination, travel_style>>,
                   "advisor_agent.run", "advisor", TipsPrompt(destination, travel_style),
                   content)

\* the f-string of optimize_itinerary
OptimizePrompt(current_itinerary, feedback) ==
    <<"Review and optimize this travel itinerary: Current Itinerary:", current_itinerary,
      "Feedback/Changes Needed:", feedback,
      "Please: ... Remember this optimization for future planning.">>

optimize_itinerary(current_itinerary, feedback, content) ==
    RunAndRemember("optimize_itinerary", <<current_itinerary, feedback>>,
                   "itinerary_agent.run", "itinerary",
                   OptimizePrompt(current_itinerary, feedback), content)

\* a dispatch that falls back to the itinerary agent
ChatAgentItineraryDefault(agent_type) ==
    IF agent_type = "memory" THEN "memory_agent.run" ELSE "itinerary_agent.run"

\* the if/elif/else of chat_with_agent
ChatAgent(agent_type) ==
    IF agent_type = "itinerary" THEN "itinerary_agent.run"
    ELSE IF agent_type = "memory" THEN "memory_agent.run"
    ELSE "advisor_agent.run"

\* the exchange is saved under the agent_type argument as it was given
chat_with_agent(message, agent_type, content) ==
    RunAndRemember("chat_with_agent", <<message, agent_type>>,
                   ChatAgent(agent_type), agent_type, <<message>>, content)

\* what a read of the store may produce for its caller: the query raises inside the
\* method (ok is FALSE), or it yields one of the values it may compute
ReadOutcomes(values, fallback) ==
    {[ok |-> TRUE, result |-> TryExcept(TRUE, v, fallback)] : v \in values}
        \cup {[ok |-> FALSE, result |-> TryExcept(FALSE, fallback, fallback)]}

\* str(n) for a small natural number
Str(n) == IF n < 10 THEN DigitChars[n + 1] ELSE TwoDigits(n)

RECURSIVE TripLines(_)
\* the two digest lines of every trip, in the order the read returned them
TripLines(trips) ==
    IF trips = << >> THEN << >>
    ELSE <<"- ", Head(trips).destination, Head(trips).start_date, "to",
           Head(trips).end_date, "Budget:", Head(trips).budget,
           "Preferences:", Head(trips).preferences>> \o TripLines(Tail(trips))

\* a digest that leaves the trips out
HistorySummaryNoTrips(trips, prefs, conversations) ==
    <<"## Your Travel History from Database:">>
    \o (IF prefs # None
        THEN <<"### Your Preferences:",
               "Preferences:", prefs[1].preferences, "Season:", prefs[1].season,
               "Budget:", prefs[1].budget, "Duration:", prefs[1].duration>>
        ELSE << >>)
    \o <<"### Recent Conversations:", Str(Len(conversations)), "interactions">>

\* history_summary of recall_travel_history, from the results of its three reads
HistorySummary(trips, prefs, conversations) ==
    <<"## Your Travel History from Database:">>
    \o (IF trips # << >> THEN <<"### Past Trips:">> \o TripLines(trips) ELSE << >>)
    \o (IF prefs # None
        THEN <<"### Your Preferences:",
               "Preferences:", prefs[1].preferences, "Season:", prefs[1].season,
               "Budget:", prefs[1].budget, "Duration:", prefs[1].duration>>
        ELSE << >>)
    \o <<"### Recent Conversations:", Str(Len(conversations)), "interactions">>

RecallPrompt(history_summary) ==
    history_summary
    \o <<"Based on this data from your travel history, please provide: ... Use this information to suggest my next trip!">>

FallbackRecallPrompt ==
    <<"Please summarize my travel history and preferences based on our previous conversations: ... Use this information to suggest my next trip!">>

recall_travel_history(content) ==
    IF ~db
    THEN \E raised \in BOOLEAN :
            IF raised
            THEN AgentRaised("recall_travel_history", << >>, << >>,
                             "memory_agent.run", FallbackRecallPrompt)
            ELSE NoStore("recall_travel_history", << >>, "memory_agent.run",
                         FallbackRecallPrompt, content)
    ELSE \E readT \in ReadOutcomes(GetTripHistory(trip_history, DEFAULT_USER, 10), << >>) :
         \E readP \in ReadOutcomes({GetUserPreferences(user_preferences, DEFAULT_USER)}, None) :
         \E readC \in ReadOutcomes(GetAgentMemory(agent_memory, DEFAULT_USER, "None", 20),
                                   << >>) :
         LET rT == readT.result
             rP == readP.result
             rC == readC.result
             reads == <<Call("get_trip_history", <<DEFAULT_USER, 10>>, readT.ok, rT.ret),
                        Call("get_user_preferences", <<DEFAULT_USER>>, readP.ok, rP.ret),
                        Call("get_agent_memory", <<DEFAULT_USER, "None", 20>>, readC.ok,
                             rC.ret)>>
             prompt == RecallPrompt(HistorySummary(rT.ret, rP.ret, rC.ret))
         IN  IF ~AllReturned(<<rT, rP, rC>>)
             THEN /\ last' = [op |-> "recall_travel_history", args |-> << >>,
                              calls |-> MadeCalls(<< >>, reads, <<rT, rP, rC>>),
                              outcome |-> "raise", ret |-> "Exception"]
                  /\ UNCHANGED <<db, clock, Stores>>
             ELSE \E raised \in BOOLEAN :
                  IF raised
                  THEN AgentRaised("recall_travel_history", << >>, reads,
                                   "memory_agent.run", prompt)
                  ELSE \E ok \in BOOLEAN : \E now \in Utcnow(clock) :
                       /\ Len(agent_memory) < MaxConvs
                       /\ agent_memory' =
                             SaveAgentMemory(agent_memory, DEFAULT_USER, "memory",
                                             prompt, content, now, ok)
                       /\ clock' = now
                       /\ last' = Completed("recall_travel_history", << >>,
                                            Append(reads, Call("memory_agent.run", prompt, TRUE, content)),
                                            <<Call("save_agent_memory",
                                                   <<DEFAULT_USER, "memory", prompt, content>>,
                                                   ok, TryExcept(ok, TRUE, FALSE).ret)>>,
                                            <<TryExcept(ok, TRUE, FALSE)>>, content)
                       /\ UNCHANGED <<db, user_preferences, trip_history>>

----------------------------------------------------------------------------
(* TravelKnowledgeHelper *)

\* self.travel_data["packing"] as __init__ sets it
TravelData ==
    [essentials |-> <<"passport", "phone charger", "medications", "comfortable shoes">>,
     weather_gear |->
        [hot |-> <<"sunscreen", "hat", "light clothing", "water bottle">>,
         cold |-> <<"warm jacket", "gloves", "hat", "thermal underwear">>,
         rainy |-> <<"umbrella", "waterproof jacket", "quick-dry clothes">>]]

\* str.lower() of a text given by its characters
LowerCase(cs) == [i \in 1..Len(cs) |-> Lower(cs[i])]

\* `sub in text`, both given by their characters
In(sub, text) ==
    \E k \in 0..(Len(text) - Len(sub)) : \A i \in 1..Len(sub) : sub[i] = text[k + i]

\* a chain that tests the cold keywords first
WeatherBucketColdFirst(weather) ==
    LET w == LowerCase(Chars(weather))
    IN  IF In(Chars("cold"), w) \/ In(Chars("snow"), w) THEN "cold"
        ELSE IF In(Chars("hot"), w) \/ In(Chars("sunny"), w) THEN "hot"
        ELSE IF In(Chars("rain"), w) THEN "rainy"
        ELSE ""

\* the bucket the if/elif chain of get_packing_list picks, "" when no branch is taken
WeatherBucket(weather) ==
    LET w == LowerCase(Chars(weather))
    IN  IF In(Chars("hot"), w) \/ In(Chars("sunny"), w) THEN "hot"
        ELSE IF In(Chars("cold"), w) \/ In(Chars("snow"), w) THEN "cold"
        ELSE IF In(Chars("rain"), w) THEN "rainy"
        ELSE ""

DurationExtras == <<"laundry detergent", "extra underwear", "backup electronics">>

\* the duration extras from seven days on
GetPackingListFromSeven(data, destination, weather, duration) ==
    LET bucket == WeatherBucket(weather)
        with_gear == IF bucket = "" THEN data.essentials
                     ELSE data.essentials \o data.weather_gear[bucket]
        base_list == IF duration >= 7 THEN with_gear \o DurationExtras ELSE with_gear
    IN  [ret |-> base_list, data |-> data]

\* list.extend on the list the essentials are stored in, instead of on a copy
GetPackingListInPlace(data, destination, weather, duration) ==
    LET bucket == WeatherBucket(weather)
        with_gear == IF bucket = "" THEN data.essentials
                     ELSE data.essentials \o data.weather_gear[bucket]
        base_list == IF duration > 7 THEN with_gear \o DurationExtras ELSE with_gear
    IN  [ret |-> base_list, data |-> [data EXCEPT !.essentials = base_list]]

\* get_packing_list: the list it returns and the lists the helper holds afterwards;
\* base_list is a copy, so the extends leave the stored lists alone
GetPackingList(data, destination, weather, duration) ==
    LET bucket == WeatherBucket(weather)
        with_gear == IF bucket = "" THEN data.essentials
                     ELSE data.essentials \o data.weather_gear[bucket]
        base_list == IF duration > 7 THEN with_gear \o DurationExtras ELSE with_gear
    IN  [ret |-> base_list, data |-> data]

get_packing_list(destination, weather, duration) ==
    LET result == GetPackingList(travel_data, destination, weather, duration)
    IN  /\ travel_data' = result.data
        /\ last' = Ran("get_packing_list", <<destination, weather, duration>>, << >>,
                       [outcome |-> "return", ret |-> result.ret])
        /\ UNCHANGED <<db, clock, Stores, ui>>

----------------------------------------------------------------------------
(* WeatherTool *)

\* Texts are given by their characters. The two characters of the source's texts
\* that are not ASCII are written "*" (the degree sign) and "#" (the calendar sign);
\* the signs that open the alert lines are left out.

\* location = f"{city},{country}" if country else city; "None" is the omitted country
Location(city, country) == IF country \in {"None", ""} THEN city ELSE city \o "," \o country

Upper(c) ==
    IF \E i \in 1..26 : LowerLetters[i] = c
    THEN UpperLetters[CHOOSE i \in 1..26 : LowerLetters[i] = c]
    ELSE c

IsLetter(c) == \E i \in 1..26 : c \in {UpperLetters[i], LowerLetters[i]}

\* str.title(): a letter that follows no letter is made upper case, any other lower
Title(cs) ==
    [i \in 1..Len(cs) |->
        IF i = 1 \/ ~IsLetter(cs[i - 1]) THEN Upper(cs[i]) ELSE Lower(cs[i])]

\* what requests.get and the reading of its response come to. kind tells how far
\* the try block gets: "transport" (requests.get raises), "status"
\* (raise_for_status raises), "json" (response.json() raises), "keys" (a key is
\* missing from the data), "ok"; error is str(e), data the decoded body
Failed(kind, error) == [kind |-> kind, error |-> Chars(error), data |-> << >>]
Answered(data) == [kind |-> "ok", error |-> << >>, data |-> data]

\* the f-string of get_current_weather
CurrentWeatherText(data) ==
    Chars("Current Weather in ") \o data.name \o Chars(", ") \o data.country
    \o Chars(":\n            Temperature: ") \o data.temp
    \o Chars("*C (feels like ") \o data.feels_like
    \o Chars("*C)\n            Condition: ") \o Title(data.description)
    \o Chars("\n            Humidity: ") \o data.humidity
    \o Chars("%\n            Wind Speed: ") \o data.wind_speed \o Chars(" m/s")

\* the try/except of get_current_weather
GetCurrentWeather(response) ==
    TryExcept(response.kind = "ok", CurrentWeatherText(response.data),
              Chars("Error getting weather data: ") \o response.error)

\* the one request an operation of the tool sends
Request(endpoint, params, response) ==
    Call("requests.get", [url |-> endpoint] @@ params, response.kind # "transport", response)

\* the provider has no weather for an empty city
ProviderGives(city, response) == city = "" => response.kind = "status"

get_current_weather(city, country, response) ==
    /\ ProviderGives(city, response)
    /\ last' = Ran("get_current_weather", <<city, country>>,
                   <<Request("/weather", [q |-> Location(city, country)], response)>>,
                   GetCurrentWeather(response))
    /\ UNCHANGED <<db, clock, Stores, ui, travel_data>>

\* "cnt": min(days * 8, 40)
ForecastCount(days) == Min(days * 8, 40)

\* one sample of the forecast: f"  {forecast_time}: {temp}*C, {description}\n"
SampleLine(item) ==
    <<"  ", Join(SubSeq(item.dt_txt, 12, 16)), ": ", item.temp, "*C, ", item.description,
      "\n">>

\* f"\n# {forecast_date}:\n"
DateHeading(forecast_date) == <<"\n# ", forecast_date, ":\n">>

RECURSIVE ForecastLoop(_, _)
\* the loop over data["list"]: what it appends to forecast_text, piece by piece
ForecastLoop(items, current_date) ==
    IF items = << >> THEN << >>
    ELSE LET item == Head(items)
             forecast_date == Join(SubSeq(item.dt_txt, 1, 10))
         IN  (IF forecast_date # current_date THEN <<DateHeading(forecast_date)>> ELSE << >>)
             \o <<SampleLine(item)>>
             \o ForecastLoop(Tail(items), forecast_date)

ForecastHeader(data) == <<"Weather Forecast for ", data.name, ", ", data.country, ":\n\n">>

\* a forecast text with a heading before every sample
ForecastTextHeadingPerSample(data) ==
    LET loop[n \in 0..Len(data.list)] ==
            IF n = 0 THEN << >>
            ELSE loop[n - 1] \o <<DateHeading(Join(SubSeq(data.list[n].dt_txt, 1, 10))),
                                  SampleLine(data.list[n])>>
    IN  <<ForecastHeader(data)>> \o loop[Len(data.list)]

\* forecast_text, as the sequence of the pieces it is built from
ForecastText(data) == <<ForecastHeader(data)>> \o ForecastLoop(data.list, "None")

\* the try/except of get_weather_forecast
GetWeatherForecast(response) ==
    TryExcept(response.kind = "ok", ForecastText(response.data),
              Chars("Error getting forecast data: ") \o response.error)

get_weather_forecast(city, days, country, response) ==
    /\ ProviderGives(city, response)
    /\ last' = Ran("get_weather_forecast", <<city, days, country>>,
                   <<Request("/forecast",
                             [q |-> Location(city, country), cnt |-> ForecastCount(days)],
                             response)>>,
                   GetWeatherForecast(response))
    /\ UNCHANGED <<db, clock, Stores, ui, travel_data>>

RECURSIVE JoinLines(_)
\* "\n".join(lines)
JoinLines(lines) ==
    IF Len(lines) <= 1 THEN lines
    ELSE <<Head(lines), "\n">> \o JoinLines(Tail(lines))

RainAlert == "Rain/Storm Alert: Consider indoor activities"
SnowAlert == "Snow Alert: Dress warmly and allow extra travel time"
WindAlert == "High Wind Alert: Be cautious with outdoor activities"

\* the alert logic of get_weather_alerts on the text get_current_weather returned:
\* "wind" is looked for in the text as it is, every other keyword in weather_info.lower()
WeatherAlerts(city, weather_info) ==
    LET lower == LowerCase(weather_info)
        alerts ==
            (IF In(Chars("rain"), lower) \/ In(Chars("storm"), lower)
             THEN <<RainAlert>> ELSE << >>)
            \o (IF In(Chars("snow"), lower) THEN <<SnowAlert>> ELSE << >>)
            \o (IF In(Chars("wind"), weather_info) /\ In(Chars("high"), lower)
                THEN <<WindAlert>> ELSE << >>)
    IN  IF In(Chars("Error"), weather_info) THEN weather_info
        ELSE IF alerts # << >>
        THEN <<"Weather Alerts for ", city, ":\n">> \o JoinLines(alerts)
        ELSE <<"No weather alerts for ", city, ". Conditions are favorable for travel!">>

get_weather_alerts(city, country, response) ==
    /\ ProviderGives(city, response)
    /\ last' = Ran("get_weather_alerts", <<city, country>>,
                   <<Request("/weather", [q |-> Location(city, country)], response)>>,
                   [outcome |-> "return",
                    ret |-> WeatherAlerts(city, GetCurrentWeather(response).ret)])
    /\ UNCHANGED <<db, clock, Stores, ui, travel_data>>

----------------------------------------------------------------------------
(* TravelScheduler: store statistics and search *)

\* a count that ignores the limit of the read
ListedUnlimited(coll, filter, limit) == Len(Matching(coll, filter))

\* len(...) of the list a find(filter).sort(...).limit(limit) read returns: the sort
\* changes the order of the documents, not their number
Listed(coll, filter, limit) == Len(Limit(Matching(coll, filter), limit))

\* the template of get_database_stats filled in, piece by piece; `collections` is
\* the list of collection names, which the model does not follow
StatsText(stats, user_trips, has_preferences, user_conversations) ==
    <<"DATABASE STATISTICS",
      "Total Users: ", Str(stats.total_users),
      "Total Trips: ", Str(stats.total_trips),
      "Total Conversations: ", Str(stats.total_conversations),
      "Collections: ", "collections",
      "Connection Status: ", stats.connection_status,
      "Trip History: ", Str(user_trips), " trips",
      "Saved Preferences: ", has_preferences,
      "Agent Conversations: ", Str(user_conversations), " interactions">>

NotConnectedStats == <<"Database not connected. Using in-memory storage only.">>
NotConnectedSearch == <<"Database not connected. Cannot search past trips.">>

\* TravelScheduler.get_database_stats: the store's stats, then the three reads of the
\* session user with their default limits, then str.format, which raises KeyError
\* for the dictionary the store returns when its counts failed
get_database_stats ==
    /\ IF ~db
       THEN last' = Ran("get_database_stats", << >>, << >>,
                        TryExcept(TRUE, NotConnectedStats, << >>))
       ELSE \E ok, okT, okP, okC \in BOOLEAN :
            LET stats == TryExcept(ok,
                                   GetDatabaseStats(user_preferences, trip_history,
                                                    agent_memory, TRUE),
                                   GetDatabaseStats(user_preferences, trip_history,
                                                    agent_memory, FALSE)).ret
                user_trips ==
                    IF okT THEN Listed(trip_history, [user_id |-> DEFAULT_USER], 10) ELSE 0
                prefs == TryExcept(okP, GetUserPreferences(user_preferences, DEFAULT_USER),
                                   None).ret
                user_conversations ==
                    IF okC THEN Listed(agent_memory, [user_id |-> DEFAULT_USER], 20) ELSE 0
                calls == <<Call("db.get_database_stats", << >>, ok, stats),
                           Call("get_trip_history", <<DEFAULT_USER>>, okT, user_trips),
                           Call("get_user_preferences", <<DEFAULT_USER>>, okP, prefs),
                           Call("get_agent_memory", <<DEFAULT_USER>>, okC,
                                user_conversations)>>
            IN  last' = Ran("get_database_stats", << >>, calls,
                            TryExcept("total_users" \in DOMAIN stats,
                                      StatsText(stats, user_trips,
                                                IF prefs # None THEN "Yes" ELSE "No",
                                                user_conversations),
                                      <<"Error getting database stats: ", "'total_users'">>))
    /\ UNCHANGED <<db, clock, Stores>>

RECURSIVE SearchLines(_)
\* the five lines search_past_trips writes for every trip found
SearchLines(results) ==
    IF results = << >> THEN << >>
    ELSE LET trip == Head(results)
         IN  <<trip.destination, trip.start_date, " to ", trip.end_date,
               "Budget: ", trip.budget, "Preferences: ", trip.preferences,
               "Created: ", Strftime(trip.created_at)>> \o SearchLines(Tail(results))

\* TravelScheduler.search_past_trips: search_destinations with its default limit,
\* which returns [] when the query raises
search_past_trips(destination_query, ok) ==
    /\ IF ~db
       THEN last' = Ran("search_past_trips", <<destination_query>>, << >>,
                        TryExcept(TRUE, NotConnectedSearch, << >>))
       ELSE LET found == ok /\ RegexValid(destination_query)
                results == TryExcept(found,
                                     SearchDestinations(trip_history, destination_query, 10),
                                     << >>).ret
            IN  last' = Ran("search_past_trips", <<destination_query>>,
                            <<Call("search_destinations", <<destination_query>>, found,
                                   results)>>,
                            TryExcept(TRUE,
                                      IF results = << >>
                                      THEN <<"No trips found matching '", destination_query,
                                             "'">>
                                      ELSE <<"SEARCH RESULTS FOR '",
                                             Join([i \in 1..Len(Chars(destination_query)) |->
                                                     Upper(Chars(destination_query)[i])]),
                                             "'">> \o SearchLines(results),
                                      << >>))
    /\ UNCHANGED <<db, clock, Stores>>

----------------------------------------------------------------------------
(* Front ends: startup *)

\* a secret value as os.getenv gives it: unset (None), or a string of which only
\* the first two characters and the length matter
NoKey == [set |-> FALSE, prefix |-> "", length |-> 0]
Key(prefix, length) == [set |-> TRUE, prefix |-> prefix, length |-> length]

\* `if key:` is false for None and for the empty string
Truthy(key) == key.set /\ key.length > 0

\* gemini_key.startswith("AI") and len(gemini_key) > 30
GeminiFormatValid(key) == key.prefix = "AI" /\ key.length > 30

\* len(weather_key) == 32
WeatherFormatValid(key) == key.length = 32

CliVariants == {"main.py", "apicheck.py", "travel_scheduler.py"}
WebVariants == {"travel_scheduler/streamlit_travel_app.py", "streamlit_travel_app.py"}

\* the front ends built on the TravelScheduler of src/travel_scheduler.py, which has
\* no store
WithoutStore == {"travel_scheduler.py", "streamlit_travel_app.py"}

\* a check that does not look for the .env file
CheckEnvConfigurationNoFile(env) ==
    IF ~Truthy(env.GEMINI_API_KEY)
    THEN [result |-> FALSE, printed |-> <<"GEMINI_API_KEY not found">>]
    ELSE IF ~Truthy(env.OPENWEATHER_API_KEY)
    THEN [result |-> FALSE, printed |-> <<"OPENWEATHER_API_KEY not found">>]
    ELSE [result |-> TRUE, printed |-> <<"Environment configuration check complete!">>]

\* check_env_configuration: what it returns and what it prints. A key that fails its
\* format test is reported with a warning and the check goes on.
CheckEnvConfiguration(env) ==
    LET gemini == IF GeminiFormatValid(env.GEMINI_API_KEY)
                  THEN <<"Gemini API key format appears valid">>
                  ELSE <<"Gemini API key format may be incorrect">>
        weather == IF WeatherFormatValid(env.OPENWEATHER_API_KEY)
                   THEN <<"OpenWeather API key format appears valid">>
                   ELSE <<"OpenWeather API key format may be incorrect">>
    IN  IF ~env.dotenv
        THEN [result |-> FALSE, printed |-> <<".env file not found">>]
        ELSE IF ~Truthy(env.GEMINI_API_KEY)
        THEN [result |-> FALSE, printed |-> <<"GEMINI_API_KEY not found">>]
        ELSE IF ~Truthy(env.OPENWEATHER_API_KEY)
        THEN [result |-> FALSE, printed |-> gemini \o <<"OPENWEATHER_API_KEY not found">>]
        ELSE [result |-> TRUE,
              printed |-> gemini \o weather
                          \o <<"Environment configuration check complete!">>]

\* test_api_connections: one weather request and one run of a test agent, each for
\* a key that is set, each inside its own try/except
TestApiConnections(env, weather_up, gemini_up) ==
    (IF Truthy(env.OPENWEATHER_API_KEY)
     THEN <<Call("weather_tool.get_current_weather", "London", weather_up, "")>>
     ELSE << >>)
    \o (IF Truthy(env.GEMINI_API_KEY)
        THEN <<Call("test_agent.run", "Say hello and confirm you're working!", gemini_up, "")>>
        ELSE << >>)

\* the front end ends (or stays) without a session: what it printed is shown
Refused(pc, printed, calls) ==
    /\ ui' = [ui EXCEPT !.pc = pc, !.scheduler = FALSE, !.shown = printed]
    /\ UNCHANGED travel_data
    /\ last' = Ran("startup", << >>, calls, [outcome |-> "return", ret |-> ""])
    /\ UNCHANGED <<db, clock, Stores>>

\* TravelScheduler(...) returned: the store is attached when the front end's
\* TravelScheduler has one and TravelDatabase(...) connected
Constructed(pc, printed, calls, connected) ==
    /\ ui' = [ui EXCEPT !.pc = pc, !.scheduler = TRUE, !.shown = printed]
    /\ travel_data' = TravelData
    /\ db' = (connected /\ ui.variant \notin WithoutStore)
    /\ last' = Ran("startup", << >>, calls, [outcome |-> "return", ret |-> ""])
    /\ UNCHANGED <<clock, Stores>>

\* main() of main.py, apicheck.py and src/travel_scheduler.py up to its menu loop
main_startup(weather_up, gemini_up, constructed, connected) ==
    /\ ui.variant \in CliVariants
    /\ ui.pc = "start"
    /\ LET check == CheckEnvConfiguration(ui.env)
           calls == TestApiConnections(ui.env, weather_up, gemini_up)
       IN  IF ~check.result
           THEN Refused("returned",
                        check.printed \o <<"Environment configuration failed.">>, << >>)
           ELSE IF ~Truthy(ui.env.GEMINI_API_KEY)
           THEN Refused("returned", check.printed \o <<"GEMINI_API_KEY not found">>, calls)
           ELSE IF ~Truthy(ui.env.OPENWEATHER_API_KEY)
           THEN Refused("returned", check.printed \o <<"OPENWEATHER_API_KEY not found">>,
                        calls)
           ELSE IF ~constructed
           THEN Refused("returned", check.printed \o <<"Error initializing scheduler">>,
                        calls)
           ELSE Constructed("menu", check.printed \o <<"initialized successfully!">>,
                            calls, connected)

\* the top of a dashboard script, which runs again on every interaction: the keys
\* are read and the TravelScheduler is constructed; st.stop() ends the run
web_startup(constructed, connected) ==
    /\ ui.variant \in WebVariants
    /\ ui.pc \in {"start", "stopped"}
    /\ LET warning == IF Truthy(ui.env.OPENWEATHER_API_KEY) THEN << >>
                      ELSE <<"OPENWEATHER_API_KEY not found. Weather features will be disabled.">>
       IN  IF ~Truthy(ui.env.GEMINI_API_KEY)
           THEN Refused("stopped", <<"GEMINI_API_KEY not found">>, << >>)
           ELSE IF ~constructed
           THEN Refused("stopped", warning \o <<"Failed to initialize Travel Scheduler.">>,
                        << >>)
           ELSE Constructed("page", warning, << >>, connected)

----------------------------------------------------------------------------
(* Front ends: the pages of the dashboards *)

PackageDashboard == "travel_scheduler/streamlit_travel_app.py"

RECURSIVE LStrip(_)
LStrip(cs) == IF cs # << >> /\ Head(cs) = " " THEN LStrip(Tail(cs)) ELSE cs
RECURSIVE RStrip(_)
RStrip(cs) ==
    IF cs # << >> /\ cs[Len(cs)] = " " THEN RStrip(SubSeq(cs, 1, Len(cs) - 1)) ELSE cs

\* str.strip() of a typed text, given by its characters
Strip(cs) == RStrip(LStrip(cs))

\* str(date) for a day of June 2025
StrDate(day) == "2025-06-" \o TwoDigits(day)

\* the test on the two dates that rejects the form: the package dashboard compares
\* with >, the dashboard of src/ with >=
DatesRejected(variant, start_date, end_date) ==
    IF variant = PackageDashboard THEN start_date > end_date ELSE start_date >= end_date

\* a destination with neither a comma nor a space gets ", India" appended
DestinationHint(cs) ==
    IF "," \notin Range(cs) /\ " " \notin Range(cs) THEN Join(cs) \o ", India" ELSE Join(cs)

\* a run of the script that ends having made no call: only the page changes
PageShows(input, shown) ==
    /\ ui' = [ui EXCEPT !.pc = "start", !.input = input, !.shown = shown]
    /\ UNCHANGED travel_data
    /\ last' = Ran(input.page, << >>, << >>, [outcome |-> "return", ret |-> ""])
    /\ UNCHANGED <<db, clock, Stores>>

\* the "Plan a Trip" page with its form submitted
web_plan_trip(destination, start_date, end_date, preferences, budget, content) ==
    LET input == [page |-> "plan", destination |-> destination,
                  start_date |-> start_date, end_date |-> end_date]
        stripped == Strip(destination)
    IN  /\ ui.variant \in WebVariants
        /\ ui.pc = "page"
        /\ IF stripped = << >>
           THEN PageShows(input, <<"Please enter a destination.">>)
           ELSE IF DatesRejected(ui.variant, start_date, end_date)
           THEN PageShows(input, <<"End date must be after start date.">>)
           ELSE /\ plan_complete_trip(DestinationHint(stripped), StrDate(start_date),
                                      StrDate(end_date), preferences, budget, content)
                /\ ui' = [ui EXCEPT
                            !.pc = "start", !.input = input,
                            !.shown = IF last'.outcome = "raise" THEN <<"Error">>
                                      ELSE <<"Trip Planned Successfully!", last'.ret>>]
                /\ UNCHANGED travel_data

\* the chat page after the call: the message, and the answer when there is one, are
\* in st.session_state.chat_history, and the whole history is displayed
ChatPage(user_input) ==
    LET history == Append(ui.chat_history, <<"user", user_input>>)
                   \o (IF last'.outcome = "raise" THEN << >>
                       ELSE <<<<"agent", last'.ret>>>>)
    IN  /\ ui' = [ui EXCEPT
                    !.pc = "start",
                    !.input = [page |-> "chat", user_input |-> user_input],
                    !.chat_history = history,
                    !.shown = (IF last'.outcome = "raise" THEN <<"Error">> ELSE << >>)
                              \o history]
        /\ UNCHANGED travel_data

\* a chat page that runs the agent itself and keeps the exchange in the browser
\* session only
web_chat_session_only(user_input, content) ==
    /\ ui.variant = PackageDashboard
    /\ ui.pc = "page"
    /\ Len(ui.chat_history) + 2 <= MaxChat
    /\ \E raised \in BOOLEAN :
          IF raised
          THEN AgentRaised("chat_with_agent", <<user_input, "advisor">>, << >>,
                           "advisor_agent.run", <<user_input>>)
          ELSE NoStore("chat_with_agent", <<user_input, "advisor">>,
                       "advisor_agent.run", <<user_input>>, content)
    /\ ChatPage(user_input)

\* the "Chat with Agent" page of the package dashboard with a message entered:
\* scheduler.chat_with_agent(user_input), with its default agent_type
web_chat(user_input, content) ==
    /\ ui.variant = PackageDashboard
    /\ ui.pc = "page"
    /\ Len(ui.chat_history) + 2 <= MaxChat
    /\ chat_with_agent(user_input, "advisor", content)
    /\ ChatPage(user_input)

----------------------------------------------------------------------------
(* Front ends: the menu loops *)

\* the if/elif chain on the choice, after strip(): the branch each menu takes.
\* Only the menu of src/travel_scheduler.py has the branches "8" and "9"; in every
\* menu the final else takes whatever is left.
MenuOperation(variant, choice) ==
    CASE choice = "1" -> "plan_complete_trip"
      [] choice = "2" -> "get_destination_recommendations"
      [] choice = "3" -> "get_travel_tips"
      [] choice = "4" -> "optimize_itinerary"
      [] choice = "5" -> "recall_travel_history"
      [] choice = "6" -> IF variant = "apicheck.py" THEN "weather" ELSE "chat_with_agent"
      [] choice = "7" -> IF variant = "apicheck.py" THEN "chat_with_agent" ELSE "weather"
      [] choice = "8" /\ variant = "travel_scheduler.py" -> "diagnostics"
      [] choice = "9" /\ variant = "travel_scheduler.py" -> "exit"
      [] OTHER -> "invalid"

\* input(...) or default
OrDefault(text, default) == IF text = "" THEN default ELSE text

\* the agent_type the chat branch passes: apicheck.py takes the typed text,
\* stripped; the other menus look a number up and fall back to "advisor"
MenuAgentType(variant, typed) ==
    IF variant = "apicheck.py" THEN Join(Strip(typed))
    ELSE CASE Join(Strip(typed)) = "1" -> "itinerary"
           [] Join(Strip(typed)) = "2" -> "advisor"
           [] Join(Strip(typed)) = "3" -> "memory"
           [] OTHER -> "advisor"

\* back at the menu after a branch whose call sits in try/except: the result is
\* printed, or the error when the call raised
BackToMenu(typed) ==
    /\ ui' = [ui EXCEPT !.input = [page |-> "menu", choice |-> typed],
                        !.shown = IF last'.outcome = "raise" THEN <<"Error">>
                                  ELSE <<last'.ret>>]
    /\ UNCHANGED travel_data

\* a branch that calls no session operation: what it called and printed
MenuShows(typed, op, calls, pc, shown) ==
    /\ ui' = [ui EXCEPT !.pc = pc, !.input = [page |-> "menu", choice |-> typed],
                        !.shown = shown]
    /\ UNCHANGED travel_data
    /\ last' = Ran(op, << >>, calls, [outcome |-> "return", ret |-> ""])
    /\ UNCHANGED <<db, clock, Stores>>

\* one round of the `while True` loop: the choice is read, its branch runs, and
\* "Press Enter to continue" is answered. typed is the choice as typed, answers are
\* the texts typed at the prompts of the branch, content is what the agent gives
\* when it answers.
main_menu(typed, answers, content) ==
    LET op == MenuOperation(ui.variant, Join(Strip(typed)))
    IN  /\ ui.variant \in CliVariants
        /\ ui.pc = "menu"
        /\ CASE op = "plan_complete_trip" ->
                  /\ plan_complete_trip(answers.destination, answers.start_date,
                                        answers.end_date, answers.preferences,
                                        OrDefault(answers.budget, "moderate"), content)
                  /\ BackToMenu(typed)
             [] op = "get_destination_recommendations" ->
                  /\ get_destination_recommendations(
                        answers.preferences, answers.season,
                        OrDefault(answers.budget, "moderate"),
                        OrDefault(answers.duration, "1 week"), content)
                  /\ BackToMenu(typed)
             [] op = "get_travel_tips" ->
                  /\ get_travel_tips(answers.destination, answers.travel_style, content)
                  /\ BackToMenu(typed)
             [] op = "optimize_itinerary" ->
                  /\ optimize_itinerary(answers.current_itinerary, answers.feedback, content)
                  /\ BackToMenu(typed)
             [] op = "recall_travel_history" ->
                  /\ recall_travel_history(content)
                  /\ BackToMenu(typed)
             [] op = "chat_with_agent" ->
                  /\ chat_with_agent(answers.message,
                                     MenuAgentType(ui.variant, answers.agent), content)
                  /\ BackToMenu(typed)
             [] op = "weather" ->
                  \E current_ok, forecast_ok \in BOOLEAN :
                     MenuShows(typed, op,
                               <<Call("weather_tool.get_current_weather", answers.city,
                                      current_ok, "")>>
                               \o (IF current_ok
                                   THEN <<Call("weather_tool.get_weather_forecast",
                                               answers.city, forecast_ok, "")>>
                                   ELSE << >>),
                               "menu",
                               IF current_ok /\ forecast_ok THEN <<"WEATHER REPORT">>
                               ELSE <<"Error">>)
             [] op = "diagnostics" ->
                  \E weather_up, gemini_up \in BOOLEAN :
                     MenuShows(typed, op,
                               TestApiConnections(ui.env, weather_up, gemini_up),
                               "menu", CheckEnvConfiguration(ui.env).printed)
             [] op = "exit" ->
                  MenuShows(typed, op, << >>, "exited",
                            <<"Thank you for using Phidata AI Travel Scheduler!">>)
             [] op = "invalid" ->
                  MenuShows(typed, op, << >>, "menu", <<"Invalid choice.">>)

----------------------------------------------------------------------------
(* Inputs *)

\* trip dictionaries handed to save_trip_history directly
TripDatas ==
    {[destination |-> "Paris, France", start_date |-> "2024-06-01",
      end_date |-> "2024-06-07", preferences |-> "museums, cafes, art",
      budget |-> "moderate", itinerary |-> "Day 1: Louvre Museum"],
     [destination |-> "Rome", start_date |-> "2024-07-01",
      end_date |-> "2024-07-03", preferences |-> "food",
      budget |-> "luxury", itinerary |-> "Day 1: Colosseum"]}

\* preference dictionaries
PreferenceDicts ==
    {[preferences |-> "hiking", season |-> "summer", budget |-> "moderate",
      duration |-> "1 week"],
     [preferences |-> "museums", season |-> "", budget |-> "luxury",
      duration |-> "3 days"]}

Limits == {1, 2, 10}
SearchQueries == {"par", ".", "("}

\* agent_type arguments of chat_with_agent; the last one names no agent
ChatAgentTypes == {"itinerary", "advisor", "memory", "Advisor"}

\* arguments of plan_complete_trip: no check is applied, so a blank destination
\* and an end date before the start date are inputs like any other
PlanArgs ==
    {<<"Paris, France", "2025-06-01", "2025-06-07", "museums", "moderate">>,
     <<"", "2025-06-07", "2025-06-01", "", "luxury">>}

----------------------------------------------------------------------------
(* Specifications *)

\* no front end: the TravelScheduler (or the TravelDatabase) is called by a program,
\* as tests.py and test_database_connection do
Direct == [variant |-> "api", pc |-> "session",
           env |-> [dotenv |-> FALSE, GEMINI_API_KEY |-> NoKey,
                    OPENWEATHER_API_KEY |-> NoKey],
           scheduler |-> TRUE, input |-> [page |-> ""], chat_history |-> << >>, shown |-> << >>]

Idle == [op |-> "none", args |-> << >>, calls |-> << >>, outcome |-> "return", ret |-> ""]

\* TravelScheduler.__init__: the store is attached when TravelDatabase(...) connects
\* and left None when it raises; the collections start empty
Init ==
    /\ db \in BOOLEAN
    /\ clock = 0
    /\ user_preferences = << >>
    /\ trip_history = << >>
    /\ agent_memory = << >>
    /\ last = Idle
    /\ ui = Direct
    /\ travel_data = TravelData

\* a TravelDatabase that connected, used directly
InitStore == Init /\ db = TRUE

\* as Init, at the last modelled tick: every later clock read returns the same time
InitLate ==
    /\ db \in BOOLEAN
    /\ clock = MaxTicks
    /\ user_preferences = << >>
    /\ trip_history = << >>
    /\ agent_memory = << >>
    /\ last = Idle
    /\ ui = Direct
    /\ travel_data = TravelData

\* a session (or a store used directly) whose store is attached, at a late instant
InitStoreLate == InitLate /\ db = TRUE

\* the operations of a TravelScheduler session, all within one tick
Next ==
    \/ plan_complete_trip("Paris, France", "2025-06-01", "2025-06-07", "museums", "moderate",
                          "R1") /\ UNCHANGED <<ui, travel_data>>
    \/ get_destination_recommendations("hiking", "summer", "moderate", "1 week", "R2") /\ UNCHANGED <<ui, travel_data>>
    \/ get_travel_tips("Rome", "solo", "R1") /\ UNCHANGED <<ui, travel_data>>
    \/ optimize_itinerary("Day 1: Louvre Museum", "slower", "R2") /\ UNCHANGED <<ui, travel_data>>
    \/ recall_travel_history("R1") /\ UNCHANGED <<ui, travel_data>>
    \/ \E t \in ChatAgentTypes : chat_with_agent("hello", t, "R2") /\ UNCHANGED <<ui, travel_data>>

Spec == InitLate /\ [][Next]_vars

\* plan_complete_trip, while time passes
NextPlan ==
    \/ Tick
    \/ \E a \in PlanArgs, r \in Responses :
          plan_complete_trip(a[1], a[2], a[3], a[4], a[5], r) /\ UNCHANGED <<ui, travel_data>>

SpecPlan == Init /\ [][NextPlan]_vars

\* the trip operations of the store, for several users
NextTrips ==
    \/ Tick
    \/ \E u \in UserIds, d \in TripDatas, ok \in BOOLEAN : save_trip_history(u, d, ok)
    \/ \E u \in UserIds, n \in Limits, ok \in BOOLEAN : get_trip_history(u, n, ok)

SpecTrips == InitStore /\ [][NextTrips]_vars

\* the preference operations of the store, for several users
NextPrefs ==
    \/ Tick
    \/ \E u \in PrefUserIds, p \in PreferenceDicts, ok \in BOOLEAN :
          save_user_preferences(u, p, ok)
    \/ \E u \in PrefUserIds, ok \in BOOLEAN : get_user_preferences(u, ok)

SpecPrefs == InitStore /\ [][NextPrefs]_vars

\* every data operation of the store, for one user
NextStore ==
    \/ \E p \in PreferenceDicts, ok \in BOOLEAN : save_user_preferences(DEFAULT_USER, p, ok)
    \/ \E ok \in BOOLEAN : get_user_preferences(DEFAULT_USER, ok)
    \/ \E d \in TripDatas, ok \in BOOLEAN : save_trip_history(DEFAULT_USER, d, ok)
    \/ \E n \in Limits, ok \in BOOLEAN : get_trip_history(DEFAULT_USER, n, ok)
    \/ \E t \in AgentNames, ok \in BOOLEAN :
          save_agent_memory(DEFAULT_USER, t, <<"hello">>, "R1", ok)
    \/ \E t \in AgentNames \cup {"None"}, n \in Limits, ok \in BOOLEAN :
          get_agent_memory(DEFAULT_USER, t, n, ok)
    \/ \E q \in SearchQueries, n \in Limits, ok \in BOOLEAN : search_destinations(q, n, ok)
    \/ \E ok \in BOOLEAN : db_get_database_stats(ok)

SpecStore == InitStoreLate /\ [][NextStore]_vars

\* the session's operations and the store's write operations, in any order
NextAll ==
    \/ plan_complete_trip("", "2025-06-07", "2025-06-01", "", "luxury", "R1") /\ UNCHANGED <<ui, travel_data>>
    \/ get_destination_recommendations("hiking", "summer", "moderate", "1 week", "R2") /\ UNCHANGED <<ui, travel_data>>
    \/ get_travel_tips("Rome", "solo", "R1") /\ UNCHANGED <<ui, travel_data>>
    \/ optimize_itinerary("Day 1: Louvre Museum", "slower", "R2") /\ UNCHANGED <<ui, travel_data>>
    \/ recall_travel_history("R1") /\ UNCHANGED <<ui, travel_data>>
    \/ chat_with_agent("hello", "memory", "R2") /\ UNCHANGED <<ui, travel_data>>
    \/ save_user_preferences(DEFAULT_USER,
                             CHOOSE p \in PreferenceDicts : p.preferences = "hiking", TRUE)
    \/ save_trip_history(DEFAULT_USER, CHOOSE d \in TripDatas : d.destination = "Rome", TRUE)
    \/ save_agent_memory(DEFAULT_USER, "advisor", <<"hello">>, "R1", TRUE)

SpecAll == InitStoreLate /\ [][NextAll]_vars

\* recommendations asked with either set of values, on a store whose preference
\* records are also written directly
RecommendArgs ==
    {<<"hiking", "summer", "moderate", "1 week">>, <<"museums", "", "luxury", "3 days">>}

NextRecommend ==
    \/ Tick
    \/ \E a \in RecommendArgs :
          get_destination_recommendations(a[1], a[2], a[3], a[4], "R1") /\ UNCHANGED <<ui, travel_data>>
    \/ \E u \in PrefUserIds, p \in PreferenceDicts :
          save_user_preferences(u, p, TRUE)

SpecRecommend == Init /\ [][NextRecommend]_vars

\* the time of the newest document of a collection whose time field is key
\* (documents are inserted in clock order), 0 for an empty collection
LastTime(coll, key) == IF coll = << >> THEN 0 ELSE coll[Len(coll)][key]

RECURSIVE TripStores(_)
\* the trip collections that up to n successful save_trip_history calls leave
TripStores(n) ==
    IF n = 0 THEN {<< >>}
    ELSE LET prev == TripStores(n - 1)
         IN  prev \cup
             {SaveTripHistory(coll, u, CHOOSE d \in TripDatas : d.destination = "Rome",
                              now1, now2, TRUE) :
                 <<coll, u, now1, now2>> \in
                    {x \in prev \X {DEFAULT_USER, "u"} \X (0..MaxTicks) \X (0..MaxTicks) :
                        /\ Len(x[1]) = n - 1
                        /\ x[3] >= LastTime(x[1], "created_at")
                        /\ x[4] \in Utcnow(x[3])}}

RECURSIVE ConvStores(_)
\* the conversation collections that up to n successful save_agent_memory calls leave
ConvStores(n) ==
    IF n = 0 THEN {<< >>}
    ELSE LET prev == ConvStores(n - 1)
         IN  prev \cup
             {SaveAgentMemory(coll, u, t, <<"hello">>, "R1", now, TRUE) :
                 <<coll, u, t, now>> \in
                    {x \in prev \X {DEFAULT_USER, "u"} \X {"advisor", "itinerary"}
                            \X (0..MaxTicks) :
                        /\ Len(x[1]) = n - 1
                        /\ x[4] >= LastTime(x[1], "timestamp")}}

\* a store left by earlier runs: trips, or conversations
InitLists ==
    /\ db = TRUE
    /\ clock = MaxTicks
    /\ user_preferences = << >>
    /\ \/ trip_history \in TripStores(MaxStored) /\ agent_memory = << >>
       \/ trip_history = << >> /\ agent_memory \in ConvStores(MaxStored)
    /\ last = Idle
    /\ ui = Direct
    /\ travel_data = TravelData

\* the agent_type arguments of get_agent_memory: "None" is the omitted argument
ListAgentTypes == {"advisor", "itinerary", "None", ""}

NextLists ==
    \/ \E u \in {DEFAULT_USER, "u"}, n \in Limits, ok \in BOOLEAN : get_trip_history(u, n, ok)
    \/ \E u \in {DEFAULT_USER, "u"}, t \in ListAgentTypes, n \in Limits, ok \in BOOLEAN :
          get_agent_memory(u, t, n, ok)

SpecLists == InitLists /\ [][NextLists]_vars

\* a front end about to start, in the environment env
FrontEnd(variant, env) ==
    [variant |-> variant, pc |-> "start", env |-> env, scheduler |-> FALSE,
     input |-> [page |-> ""], chat_history |-> << >>, shown |-> << >>]

\* the model key: unset, empty, well formed, with another prefix, too short
GeminiKeys == {NoKey, Key("", 0), Key("AI", 39), Key("sk", 39), Key("AI", 10)}
\* the weather key: unset, empty, well formed, too short
WeatherKeys == {NoKey, Key("", 0), Key("0a", 32), Key("0a", 8)}

\* the environment after load_dotenv(), and whether ./.env exists
Envs ==
    [dotenv : BOOLEAN, GEMINI_API_KEY : GeminiKeys, OPENWEATHER_API_KEY : WeatherKeys]

\* a front end is started, on an empty store
InitFront(variants, envs) ==
    /\ db = FALSE
    /\ clock = MaxTicks
    /\ user_preferences = << >>
    /\ trip_history = << >>
    /\ agent_memory = << >>
    /\ last = Idle
    /\ ui \in {FrontEnd(v, e) : v \in variants, e \in envs}
    /\ travel_data = TravelData

InitStartup == InitFront(CliVariants \cup WebVariants, Envs)

\* the startup of every front end, in every environment
NextStartup ==
    \/ \E weather_up, gemini_up, constructed, connected \in BOOLEAN :
          main_startup(weather_up, gemini_up, constructed, connected)
    \/ \E constructed, connected \in BOOLEAN : web_startup(constructed, connected)

SpecStartup == InitStartup /\ [][NextStartup]_vars

\* an environment every front end accepts, and one in which the model key is unset
GoodEnv ==
    [dotenv |-> TRUE, GEMINI_API_KEY |-> Key("AI", 39), OPENWEATHER_API_KEY |-> Key("0a", 32)]
NoGeminiEnv == [GoodEnv EXCEPT !.GEMINI_API_KEY = NoKey]

\* what is typed into the destination field: nothing, spaces, a single word with
\* spaces around it, a city and a country
DestinationInputs ==
    {<< >>, <<" ", " ">>, <<" ">> \o Chars("Rome") \o <<" ">>, Chars("Paris, France")}
\* the days picked in the two date fields: end after start, the same day, end before
\* start
FormDates == {<<1, 2>>, <<1, 1>>, <<2, 1>>}

InitWeb == InitFront(WebVariants, {GoodEnv, NoGeminiEnv})

\* the dashboards: every run of the script starts at its top, then serves a page
NextWeb ==
    \/ \E constructed, connected \in BOOLEAN : web_startup(constructed, connected)
    \/ \E d \in DestinationInputs, dates \in FormDates :
          web_plan_trip(d, dates[1], dates[2], "museums", "moderate", "R1")
    \/ web_chat("hello", "R2")

SpecWeb == InitWeb /\ [][NextWeb]_vars

\* the choices typed at the menu: every number a menu announces, with or without
\* spaces around it, and texts no menu knows
MenuChoices ==
    {<<"1">>, <<"2">>, <<"3">>, <<"4">>, <<"5">>, <<"6">>, <<"7">>, <<"8">>,
     <<" ", "9", " ">>, <<"1", "1">>, <<"q">>, << >>}

\* the texts typed at the prompts of the branches; an empty budget or duration
\* takes its default
MenuAnswers ==
    {[destination |-> "Rome", start_date |-> "2025-06-01", end_date |-> "2025-06-07",
      preferences |-> "museums", budget |-> "", season |-> "summer", duration |-> "",
      travel_style |-> "solo", current_itinerary |-> "Day 1: Louvre Museum",
      feedback |-> "slower", message |-> "hello", agent |-> agent, city |-> "London"] :
        agent \in {<<"1">>, <<" ">> \o Chars("memory")}}

InitCli == InitFront(CliVariants, {GoodEnv, NoGeminiEnv})

\* the menu front ends: startup, then the loop
NextCli ==
    \/ \E weather_up, gemini_up, constructed, connected \in BOOLEAN :
          main_startup(weather_up, gemini_up, constructed, connected)
    \/ \E typed \in MenuChoices, answers \in MenuAnswers :
          main_menu(typed, answers, "R1")

SpecCli == InitCli /\ [][NextCli]_vars

\* weather descriptions: keywords alone, in either case, several at once, inside
\* another word ("photo"), and none
WeatherDescriptions ==
    {"hot", "sunny", "cold", "snow", "rain", "Hot and sunny", "HOT days, cold nights",
     "Sunny, then rain", "Cold", "light snow", "Snow and rain", "Light Rain", "photo",
     "mild", ""}
\* trip lengths in days, around the threshold of the duration extras
Durations == {0, 6, 7, 8, 30}

\* get_packing_list, called again and again on one helper
NextPacking ==
    \E destination \in {"Rome", "Paris, France"}, weather \in WeatherDescriptions,
       duration \in Durations :
        get_packing_list(destination, weather, duration)

SpecPacking == InitLate /\ [][NextPacking]_vars

\* samples a forecast response may hold
MaxSamples == 3

\* the failures of a request, each with its str(e)
Failures ==
    {Failed("transport", "Connection refused"), Failed("status", "404 Client Error: Not Found"),
     Failed("json", "Expecting value"), Failed("keys", "'main'")}

\* the conditions the provider describes; no description of the provider's has a
\* capital letter
Descriptions ==
    {"light rain", "thunderstorm", "heavy snow", "high winds", "clear sky", "rain and snow"}

\* the body of a current-weather response
CurrentData(name, description) ==
    [name |-> Chars(name), country |-> Chars("GB"), temp |-> <<"2", "1">>,
     feels_like |-> <<"1", "9">>, description |-> Chars(description),
     humidity |-> <<"6", "0">>, wind_speed |-> <<"3">>]

CurrentResponses ==
    Failures \cup {Answered(CurrentData(name, description)) :
                      name \in {"London", "Swindon"}, description \in Descriptions}

\* "YYYY-MM-DD HH:MM:SS" for a day of June 2025 and a full hour
DtTxt(day, hour) ==
    Chars("2025-06-") \o <<DigitChars[(day \div 10) + 1], DigitChars[(day % 10) + 1], " ">>
    \o <<DigitChars[(hour \div 10) + 1], DigitChars[(hour % 10) + 1]>> \o Chars(":00:00")

Samples ==
    {[dt_txt |-> DtTxt(day, hour), temp |-> "21", description |-> "clear sky"] :
        day \in {1, 2}, hour \in {9, 21}}

\* the sample lists of a forecast response, in any order of their date stamps
SampleLists == UNION {[1..n -> Samples] : n \in 0..MaxSamples}

ForecastResponses ==
    Failures \cup {Answered([name |-> "London", country |-> "GB", list |-> items]) :
                      items \in SampleLists}

\* the days argument, inside and outside the documented range 1-5
ForecastDays == {-1, 0, 1, 3, 5, 6, 10}

\* the city and country arguments: a city alone, with a country code, and no city
WeatherPlaces == {<<"London", "None">>, <<"London", "GB">>, <<"", "None">>}

\* the days argument and the response of a forecast call: every days value with
\* every failure and with one answer, and the default days with every answer
ForecastCalls ==
    {<<days, response>> :
        days \in ForecastDays,
        response \in Failures \cup {Answered([name |-> "London", country |-> "GB",
                                              list |-> << >>])}}
    \cup {<<5, response>> : response \in ForecastResponses}

\* the three operations of the WeatherTool, in any order
NextWeather ==
    \/ \E place \in WeatherPlaces, response \in CurrentResponses :
          get_current_weather(place[1], place[2], response)
    \/ \E place \in WeatherPlaces, call \in ForecastCalls :
          get_weather_forecast(place[1], call[1], place[2], call[2])
    \/ \E place \in WeatherPlaces, response \in CurrentResponses :
          get_weather_alerts(place[1], place[2], response)

SpecWeather == InitStoreLate /\ [][NextWeather]_vars

\* the operations of a session, the two store reports included
NextSession ==
    \/ plan_complete_trip("Paris, France", "2025-06-01", "2025-06-07", "museums", "moderate",
                          "R1") /\ UNCHANGED <<ui, travel_data>>
    \/ get_destination_recommendations("hiking", "summer", "moderate", "1 week", "R2") /\ UNCHANGED <<ui, travel_data>>
    \/ get_travel_tips("Rome", "solo", "R1") /\ UNCHANGED <<ui, travel_data>>
    \/ optimize_itinerary("Day 1: Louvre Museum", "slower", "R2") /\ UNCHANGED <<ui, travel_data>>
    \/ recall_travel_history("R1") /\ UNCHANGED <<ui, travel_data>>
    \/ \E t \in ChatAgentTypes : chat_with_agent("hello", t, "R2") /\ UNCHANGED <<ui, travel_data>>
    \/ get_database_stats /\ UNCHANGED <<ui, travel_data>>
    \/ \E q \in SearchQueries, ok \in BOOLEAN :
          search_past_trips(q, ok) /\ UNCHANGED <<ui, travel_data>>

SpecSession == InitLate /\ [][NextSession]_vars

\* how many trips and conversations of the session user the store holds at the
\* start: none, one, and numbers around the default limits of the two reads
StoredTripCounts == {0, 1, 9, 10, 11}
StoredConvCounts == {0, 19, 20, 21}

RECURSIVE WithTrips(_, _, _)
\* coll after n more successful save_trip_history calls for user_id
WithTrips(coll, user_id, n) ==
    IF n = 0 THEN coll
    ELSE SaveTripHistory(WithTrips(coll, user_id, n - 1), user_id,
                         CHOOSE d \in TripDatas : d.destination = "Rome",
                         MaxTicks, MaxTicks, TRUE)

RECURSIVE WithConvs(_, _, _)
\* coll after n more successful save_agent_memory calls for user_id
WithConvs(coll, user_id, n) ==
    IF n = 0 THEN coll
    ELSE SaveAgentMemory(WithConvs(coll, user_id, n - 1), user_id, "advisor", <<"hello">>,
                         "R1", MaxTicks, TRUE)

\* a connected session on a store that earlier runs filled: trips and conversations
\* of the session user, after at most one of another user, with or without a
\* preference record
InitStats ==
    /\ db = TRUE
    /\ clock = MaxTicks
    /\ user_preferences \in
          {<< >>, SaveUserPreferences(<< >>, DEFAULT_USER,
                                      CHOOSE p \in PreferenceDicts : p.preferences = "hiking",
                                      MaxTicks, MaxTicks, TRUE)}
    /\ trip_history \in {WithTrips(WithTrips(<< >>, "u", m), DEFAULT_USER, n) :
                            m \in 0..1, n \in StoredTripCounts}
    /\ agent_memory \in {WithConvs(WithConvs(<< >>, "u", m), DEFAULT_USER, n) :
                            m \in 0..1, n \in StoredConvCounts}
    /\ last = Idle
    /\ ui = Direct
    /\ travel_data = TravelData

\* the two store reports of a session
NextStats ==
    \/ get_database_stats /\ UNCHANGED <<ui, travel_data>>
    \/ \E q \in SearchQueries, ok \in BOOLEAN :
          search_past_trips(q, ok) /\ UNCHANGED <<ui, travel_data>>

SpecStats == InitStats /\ [][NextStats]_vars

----------------------------------------------------------------------------
(* Properties *)

\* the step is a run of operation op (a Tick leaves last and the collections alone)
IsStep(op) ==
    /\ last'.op = op
    /\ (last.op # op \/ last' # last \/ Stores' # Stores)

\* the calls of an operation that are agent runs
AgentCalls(calls) == SelectSeq(calls, LAMBDA c : c.fn \in AgentFns)

\* coll2 is coll1 with exactly one document appended
AppendedOne(coll1, coll2) ==
    Len(coll2) = Len(coll1) + 1 /\ SubSeq(coll2, 1, Len(coll1)) = coll1

\* C1: a plan_complete_trip on a session with a store, whose agent run returned R and
\* whose two writes went through, sent one prompt with the destination, both dates
\* and the budget to the itinerary agent, appended exactly one trip of the session
\* user carrying the five arguments and R, appended exactly one conversation of type
\* "itinerary", returned R; and every read of the user's trips then returns that trip
PlanTripContract ==
    [][(/\ IsStep("plan_complete_trip")
        /\ db
        /\ last'.calls[1].ok
        /\ Len(last'.calls) = 3 /\ last'.calls[2].ok /\ last'.calls[3].ok)
       => LET a == last'.args
              run == last'.calls[1]
              trip == trip_history'[Len(trip_history')]
              conv == agent_memory'[Len(agent_memory')]
          IN  /\ AgentCalls(last'.calls) = <<run>>
              /\ run.fn = "itinerary_agent.run"
              /\ {a[1], a[2], a[3], a[5]} \subseteq Range(run.arg)
              /\ AppendedOne(trip_history, trip_history')
              /\ trip.user_id = DEFAULT_USER
              /\ <<trip.destination, trip.start_date, trip.end_date, trip.preferences,
                   trip.budget>> = a
              /\ trip.itinerary = run.out
              /\ AppendedOne(agent_memory, agent_memory')
              /\ conv.agent_type = "itinerary" /\ conv.user_id = DEFAULT_USER
              /\ user_preferences' = user_preferences
              /\ last'.outcome = "return" /\ last'.ret = run.out
              /\ \A found \in GetTripHistory(trip_history', DEFAULT_USER, 10) :
                    \E i \in 1..Len(found) :
                        found[i] = [trip EXCEPT !._id = ObjectIdStr(@)]
      ]_vars

\* C1 witness: a trip planned with a blank destination and an end date before the
\* start date was stored, after an earlier trip of the same user
PlanTripStored ==
    /\ last.op = "plan_complete_trip" /\ last.outcome = "return"
    /\ Len(last.calls) = 3 /\ last.calls[2].ok /\ last.calls[3].ok
    /\ last.args[1] = "" /\ last.args[2] = "2025-06-07" /\ last.args[3] = "2025-06-01"
    /\ Len(trip_history) = 2
    /\ trip_history[2].destination = ""

\* C2: right after a successful save_trip_history for a user, every result that
\* get_trip_history(user_id, limit=1) may return is the record just written alone
NewestFirstAfterAppend ==
    (last.op = "save_trip_history" /\ last.ret = TRUE)
        => \A found \in GetTripHistory(trip_history, last.args[1], 1) :
              found = StrIds(<<trip_history[Len(trip_history)]>>)

\* C3: a user has at most one preference document, and none means that
\* get_user_preferences finds nothing; a successful save_user_preferences leaves
\* exactly one document of the user, holding the preferences of that call, and no
\* other step changes what get_user_preferences finds for a user
PrefsCount(coll, user_id) == Len(Matching(coll, [user_id |-> user_id]))

OnePreferenceRecord ==
    /\ [](\A u \in PrefUserIds :
            /\ PrefsCount(user_preferences, u) <= 1
            /\ PrefsCount(user_preferences, u) = 0
                  <=> GetUserPreferences(user_preferences, u) = None)
    /\ [][\A u \in PrefUserIds :
            IF /\ IsStep("save_user_preferences")
               /\ last'.ret = TRUE
               /\ last'.args[1] = u
            THEN /\ PrefsCount(user_preferences', u) = 1
                 /\ GetUserPreferences(user_preferences', u) = Some(last'.args[2])
            ELSE GetUserPreferences(user_preferences', u)
                    = GetUserPreferences(user_preferences, u)
         ]_vars

\* C3 witness: the user saved first has just been saved again with other
\* preferences, after another user was saved in between
PreferencesOverwritten ==
    /\ last.op = "save_user_preferences" /\ last.ret = TRUE
    /\ Len(user_preferences) = 2
    /\ user_preferences[1].user_id = last.args[1]
    /\ user_preferences[1].preferences = last.args[2]
    /\ user_preferences[1].created_at > user_preferences[2].created_at

SingleTripPerTripId ==
    \A i, j \in 1..Len(trip_history) :
        trip_history[i].trip_id = trip_history[j].trip_id => i = j

\* C5 amended: a successful save_trip_history appends its document, whose trip_id is
\* the user id and the second of the call, and leaves every stored trip as it was,
\* also when a stored trip has the same trip_id: both are then stored, each with the
\* fields of its own call
AppendTripKeepsBoth ==
    [][(IsStep("save_trip_history") /\ last'.ret = TRUE)
       => LET new == trip_history'[Len(trip_history')]
              d == last'.args[2]
          IN  /\ AppendedOne(trip_history, trip_history')
              /\ new.user_id = last'.args[1]
              /\ \E t \in clock..clock' : new.trip_id = TripId(last'.args[1], t)
              /\ <<new.destination, new.start_date, new.end_date, new.preferences,
                   new.budget, new.itinerary>>
                   = <<d.destination, d.start_date, d.end_date, d.preferences,
                       d.budget, d.itinerary>>
      ]_vars

\* C5 witness: two trips of one user saved within one second are both stored, with
\* the same trip_id and different fields
SameSecondTripsBothStored ==
    /\ last.op = "save_trip_history" /\ last.ret = TRUE
    /\ Len(trip_history) = 2
    /\ trip_history[1].trip_id = trip_history[2].trip_id
    /\ trip_history[1].destination # trip_history[2].destination

\* C6: two stored trips whose user differs, or whose created_at lies in different
\* seconds, have different trip_ids
TripIdUnique ==
    \A i, j \in 1..Len(trip_history) :
        (\/ trip_history[i].user_id # trip_history[j].user_id
         \/ SecondOf(trip_history[i].created_at) # SecondOf(trip_history[j].created_at))
            => trip_history[i].trip_id # trip_history[j].trip_id

\* C7: every stored conversation has one of the three agent types
AgentTypeKnown ==
    \A i \in 1..Len(agent_memory) : agent_memory[i].agent_type \in AgentNames

\* C8: chat_with_agent runs exactly one agent, once, with the message as prompt: the
\* itinerary agent for "itinerary", the memory agent for "memory", the advisor agent
\* for any other agent_type; when the run returns, the operation returns its text
ChatDispatch ==
    last.op = "chat_with_agent"
        => LET runs == AgentCalls(last.calls)
               agent_type == last.args[2]
           IN  /\ Len(runs) = 1
               /\ runs[1].fn = (CASE agent_type = "itinerary" -> "itinerary_agent.run"
                                  [] agent_type = "memory" -> "memory_agent.run"
                                  [] OTHER -> "advisor_agent.run")
               /\ runs[1].arg = <<last.args[1]>>
               /\ runs[1].ok => (last.outcome = "return" /\ last.ret = runs[1].out)

\* C8 witness: a chat with an agent_type that names no agent was answered by the
\* advisor agent
ChatDefaulted ==
    /\ last.op = "chat_with_agent" /\ last.args[2] = "Advisor"
    /\ last.outcome = "return" /\ last.ret = "R2"
    /\ last.calls[1].fn = "advisor_agent.run"

SessionOps ==
    {"plan_complete_trip", "get_destination_recommendations", "get_travel_tips",
     "optimize_itinerary", "recall_travel_history", "chat_with_agent"}

WriteFns == {"save_trip_history", "save_user_preferences", "save_agent_memory"}

\* C10: in a session operation every store write comes after the agent run has
\* returned; whether the writes succeed or fail, the operation returns the agent's
\* text; and plan_complete_trip calls save_agent_memory after save_trip_history
\* whatever save_trip_history returned
WritesBestEffort ==
    last.op \in SessionOps
        => LET calls == last.calls
               runs == AgentCalls(calls)
           IN  /\ \A i \in 1..Len(calls) :
                     calls[i].fn \in WriteFns
                        => \E j \in 1..(i - 1) : calls[j].fn \in AgentFns /\ calls[j].ok
               /\ (runs # << >> /\ runs[1].ok)
                     => (last.outcome = "return" /\ last.ret = runs[1].out)
               /\ (last.op = "plan_complete_trip" /\ db /\ runs[1].ok)
                     => (/\ Len(calls) = 3
                         /\ calls[2].fn = "save_trip_history"
                         /\ calls[3].fn = "save_agent_memory")

\* C10 witness: plan_complete_trip returned the text although its trip write failed,
\* and its conversation write was made and stored
ConversationSavedAfterFailedTrip ==
    /\ last.op = "plan_complete_trip" /\ last.outcome = "return" /\ last.ret = "R1"
    /\ Len(last.calls) = 3
    /\ ~last.calls[2].ok /\ last.calls[3].ok
    /\ trip_history = << >> /\ Len(agent_memory) = 1

StoreReads == {"get_user_preferences", "get_trip_history", "get_agent_memory",
               "search_destinations"}
StoreWrites == {"save_user_preferences", "save_trip_history", "save_agent_memory"}
StoreOps == StoreReads \cup StoreWrites \cup {"db.get_database_stats"}

\* C9: a data operation of the store never raises; when its query or write failed, a
\* read returns the empty list or None, a write returns False, the statistics say
\* "Disconnected"; and the step of a failed operation leaves the collections as
\* they were
StoreFailuresContained ==
    /\ [](last.op \in StoreOps
            => /\ last.outcome = "return"
               /\ ~last.calls[1].ok
                    => /\ last.op \in StoreReads => last.ret = << >>
                       /\ last.op \in StoreWrites => last.ret = FALSE
                       /\ last.op = "db.get_database_stats"
                            => last.ret.connection_status = "Disconnected")
    /\ [][(last'.op \in StoreOps /\ ~last'.calls[1].ok) => Stores' = Stores]_vars

\* C9 witness: a write failed on a store that holds documents, and returned False
WriteFailedQuietly ==
    /\ last.op = "save_trip_history" /\ ~last.calls[1].ok /\ last.ret = FALSE
    /\ Len(trip_history) = 1 /\ Len(agent_memory) = 1 /\ Len(user_preferences) = 1

\* C11: a session operation never ends by raising: when the agent run inside it
\* fails, the operation returns a text
ModelFailureReturned ==
    last.op \in SessionOps => last.outcome = "return"

\* C12: a get_destination_recommendations on a session with a store, whose agent run
\* returned and whose two writes went through, ran the advisor agent once with a
\* prompt holding the four values, left exactly one preference record of the session
\* user, holding exactly the four values of this call, left the preference records
\* of other users alone, appended exactly one conversation of type "advisor", and
\* changed no trip
RecommendContract ==
    [][(/\ IsStep("get_destination_recommendations")
        /\ db
        /\ last'.calls[1].ok
        /\ Len(last'.calls) = 3 /\ last'.calls[2].ok /\ last'.calls[3].ok)
       => LET a == last'.args
              run == last'.calls[1]
              conv == agent_memory'[Len(agent_memory')]
          IN  /\ AgentCalls(last'.calls) = <<run>>
              /\ run.fn = "advisor_agent.run"
              /\ {a[1], a[2], a[3], a[4]} \subseteq Range(run.arg)
              /\ PrefsCount(user_preferences', DEFAULT_USER) = 1
              /\ GetUserPreferences(user_preferences', DEFAULT_USER)
                    = Some([preferences |-> a[1], season |-> a[2], budget |-> a[3],
                            duration |-> a[4]])
              /\ \A u \in PrefUserIds \ {DEFAULT_USER} :
                    Matching(user_preferences', [user_id |-> u])
                        = Matching(user_preferences, [user_id |-> u])
              /\ AppendedOne(agent_memory, agent_memory')
              /\ conv.agent_type = "advisor" /\ conv.user_id = DEFAULT_USER
              /\ conv.response = run.out
              /\ trip_history' = trip_history
              /\ last'.outcome = "return" /\ last'.ret = run.out
      ]_vars

\* C12 witness: the session user's record, stored with other values before another
\* user's record, now holds the values of the recommendation request just made
PreferencesReplacedByRecommend ==
    /\ last.op = "get_destination_recommendations" /\ last.outcome = "return"
    /\ Len(last.calls) = 3 /\ last.calls[2].ok /\ last.calls[3].ok
    /\ Len(user_preferences) = 2
    /\ user_preferences[1].user_id = DEFAULT_USER
    /\ user_preferences[1].preferences.preferences = "museums"
    /\ last.args[1] = "museums"
    /\ user_preferences[1].created_at > user_preferences[2].created_at
    /\ Len(agent_memory) = 1

\* C13: a recall_travel_history on a session with a store calls get_trip_history
\* (limit 10), get_user_preferences and get_agent_memory (every agent type, limit
\* 20) in this order, on the store as it was before the call; its prompt holds a
\* line for every trip the read returned and the number of conversations the read
\* returned, which is the number stored for the user before the call; it runs the
\* memory agent once with that prompt, and only when the run returned does it append
\* one conversation of type "memory" holding the prompt; no trip and no preference
\* record changes
RecallDigest ==
    [][(IsStep("recall_travel_history") /\ db)
       => LET calls == last'.calls
              trips == calls[1].out
              prompt == calls[4].arg
              new == agent_memory'[Len(agent_memory')]
          IN  /\ Len(calls) >= 4
              /\ calls[1].fn = "get_trip_history" /\ calls[1].arg = <<DEFAULT_USER, 10>>
              /\ calls[2].fn = "get_user_preferences"
              /\ calls[3].fn = "get_agent_memory"
              /\ calls[3].arg = <<DEFAULT_USER, "None", 20>>
              /\ calls[4].fn = "memory_agent.run"
              /\ AgentCalls(calls) = <<calls[4]>>
              /\ calls[1].ok => trips \in GetTripHistory(trip_history, DEFAULT_USER, 10)
              /\ calls[2].ok
                    => calls[2].out = GetUserPreferences(user_preferences, DEFAULT_USER)
              /\ calls[3].ok
                    => /\ calls[3].out
                            \in GetAgentMemory(agent_memory, DEFAULT_USER, "None", 20)
                       /\ Len(calls[3].out)
                            = Min(20, Len(Matching(agent_memory, [user_id |-> DEFAULT_USER])))
              /\ \A i \in 1..Len(trips) :
                    \E k \in 1..(Len(prompt) - 4) :
                        /\ prompt[k + 1] = trips[i].destination
                        /\ prompt[k + 2] = trips[i].start_date
                        /\ prompt[k + 4] = trips[i].end_date
              /\ \E k \in 1..(Len(prompt) - 1) :
                    /\ prompt[k] = "### Recent Conversations:"
                    /\ prompt[k + 1] = Str(Len(calls[3].out))
              /\ IF calls[4].ok
                 THEN /\ Len(calls) = 5 /\ calls[5].fn = "save_agent_memory"
                      /\ IF calls[5].ok
                         THEN /\ AppendedOne(agent_memory, agent_memory')
                              /\ new.agent_type = "memory" /\ new.user_id = DEFAULT_USER
                              /\ new.conversation = prompt /\ new.response = calls[4].out
                         ELSE agent_memory' = agent_memory
                 ELSE Len(calls) = 4 /\ agent_memory' = agent_memory
              /\ trip_history' = trip_history
              /\ user_preferences' = user_preferences
      ]_vars

\* C13 witness: the history was recalled from a store holding two trips, the
\* preferences and no conversation: the digest lists both trips and counts 0
\* conversations, and the exchange is now the one stored conversation
RecalledBeforeRemembered ==
    /\ last.op = "recall_travel_history" /\ last.outcome = "return" /\ db
    /\ Len(last.calls) = 5 /\ last.calls[5].ok
    /\ Len(last.calls[1].out) = 2
    /\ last.calls[2].out # None
    /\ last.calls[3].ok /\ last.calls[3].out = << >>
    /\ Len(agent_memory) = 1 /\ agent_memory[1].agent_type = "memory"
    /\ "0" \in Range(agent_memory[1].conversation)

\* C14: get_travel_tips runs the advisor agent and optimize_itinerary the itinerary
\* agent, once; when the run returned and the write went through on a session with
\* a store, exactly one conversation is appended, of type "advisor" and "itinerary"
\* respectively, holding the prompt and the response; the trips and the preference
\* records are left as they were
TipsAndOptimizeFrame ==
    [][\A op \in {"get_travel_tips", "optimize_itinerary"} :
          IsStep(op)
             => LET calls == last'.calls
                    new == agent_memory'[Len(agent_memory')]
                    agent_type == IF op = "get_travel_tips" THEN "advisor" ELSE "itinerary"
                IN  /\ AgentCalls(calls) = <<calls[1]>>
                    /\ calls[1].fn
                          = (IF op = "get_travel_tips" THEN "advisor_agent.run"
                             ELSE "itinerary_agent.run")
                    /\ trip_history' = trip_history
                    /\ user_preferences' = user_preferences
                    /\ IF db /\ calls[1].ok /\ calls[2].ok
                       THEN /\ AppendedOne(agent_memory, agent_memory')
                            /\ new.agent_type = agent_type /\ new.user_id = DEFAULT_USER
                            /\ new.conversation = calls[1].arg
                            /\ new.response = calls[1].out
                       ELSE agent_memory' = agent_memory
      ]_vars

\* C14 witness: an itinerary was optimized on a store holding a trip and the
\* preferences: the exchange is the stored conversation, of type "itinerary"
OptimizeRemembered ==
    /\ last.op = "optimize_itinerary" /\ last.outcome = "return" /\ db
    /\ Len(last.calls) = 2 /\ last.calls[2].ok
    /\ Len(trip_history) >= 1 /\ Len(user_preferences) = 1
    /\ Len(agent_memory) = 1 /\ agent_memory[1].agent_type = "itinerary"
    /\ agent_memory[1].conversation = last.calls[1].arg

\* found is what a newest-first read with a limit of at least 1 returns of the
\* documents mine: at most limit of them, as many as there are up to limit, each a
\* stored document (with its _id as a string) and none twice, descending in the time
\* field key, and no document left out is newer than a returned one
NewestFirst(found, mine, limit, key) ==
    /\ Len(found) = Min(limit, Len(mine))
    /\ \A i \in 1..Len(found) :
          \E j \in 1..Len(mine) : found[i] = [mine[j] EXCEPT !._id = ObjectIdStr(@)]
    /\ \A i, j \in 1..Len(found) : found[i]._id = found[j]._id => i = j
    /\ \A i \in 1..(Len(found) - 1) : found[i][key] >= found[i + 1][key]
    /\ \A j \in 1..Len(mine) :
          (\A i \in 1..Len(found) : found[i]._id # ObjectIdStr(mine[j]._id))
             => \A i \in 1..Len(found) : found[i][key] >= mine[j][key]

\* the reads of C15: get_trip_history, and get_agent_memory where the agent types in
\* unfiltered are the ones that select the conversations of every agent type
ListsNewestFirst(unfiltered) ==
    /\ (last.op = "get_trip_history" /\ last.calls[1].ok /\ last.args[2] >= 1)
          => NewestFirst(last.ret, Matching(trip_history, [user_id |-> last.args[1]]),
                         last.args[2], "created_at")
    /\ (last.op = "get_agent_memory" /\ last.calls[1].ok /\ last.args[3] >= 1)
          => NewestFirst(last.ret,
                         IF last.args[2] \in unfiltered
                         THEN Matching(agent_memory, [user_id |-> last.args[1]])
                         ELSE Matching(agent_memory, [user_id |-> last.args[1],
                                                      agent_type |-> last.args[2]]),
                         last.args[3], "timestamp")

\* C15 as claimed: get_trip_history(user_id, limit) with limit >= 1 returns the
\* newest limit trips of the user, newest first; get_agent_memory does the same by
\* timestamp, for the conversations of the given agent_type whenever an agent_type
\* is given, and for those of every agent type when it is omitted
ListsFilterWheneverGiven == ListsNewestFirst({"None"})

\* C15 amended: as above, but an empty agent_type is treated as an omitted one: the
\* conversations of every agent type are returned
ListsFilterWhenNonEmpty == ListsNewestFirst({"None", ""})

\* C15 witness: of two "advisor" conversations of a user, stored at different times,
\* a read for that agent type with limit 1 returned the one stored last
NewestConversationListed ==
    /\ last.op = "get_agent_memory" /\ last.calls[1].ok
    /\ last.args[2] = "advisor" /\ last.args[3] = 1
    /\ Len(agent_memory) = 2
    /\ agent_memory[1].user_id = last.args[1] /\ agent_memory[2].user_id = last.args[1]
    /\ agent_memory[1].agent_type = "advisor" /\ agent_memory[2].agent_type = "advisor"
    /\ agent_memory[1].timestamp < agent_memory[2].timestamp
    /\ Len(last.ret) = 1 /\ last.ret[1]._id = ObjectIdStr(2)

\* text contains query as it is written, letter case aside
ContainsLiterally(query, text) ==
    LET q == Chars(query)
        t == Chars(text)
    IN  \E k \in 0..(Len(t) - Len(q)) : \A i \in 1..Len(q) : Lower(q[i]) = Lower(t[k + i])

\* C16: search_destinations(query, limit) returns stored trips whose destination
\* contains the query as a literal substring, letter case aside, and as many of them
\* as there are, up to limit, whatever characters the query is made of
SearchIsLiteralSubstring ==
    last.op = "search_destinations"
        => LET query == last.args[1]
               hits == SelectSeq(trip_history,
                                 LAMBDA d : ContainsLiterally(query, d.destination))
           IN  /\ last.outcome = "return"
               /\ Len(last.ret) = Min(last.args[2], Len(hits))
               /\ \A i \in 1..Len(last.ret) :
                     \E j \in 1..Len(hits) :
                         last.ret[i] = [hits[j] EXCEPT !._id = ObjectIdStr(@)]

\* whether the front end's startup has run to its end
StartupDone == ui.pc \in {"menu", "page", "returned", "stopped"}

PageServed(page) ==
    /\ ui.variant \in WebVariants
    /\ ui.pc = "page" /\ ui'.pc = "start"
    /\ ui'.input.page = page

\* C18: the plan-trip form of a dashboard calls plan_complete_trip only when the
\* destination is not blank and the end date is strictly after the start date; for
\* a blank destination or an end date not after the start date, the same day
\* included, it shows an error, makes no call and leaves every record as it was.
\* plan_complete_trip itself runs with whatever it is given.
PlanFormValidates ==
    [][PageServed("plan") =>
          LET form == ui'.input
              valid == Strip(form.destination) # << >> /\ form.end_date > form.start_date
          IN  IF valid
              THEN /\ last'.op = "plan_complete_trip"
                   /\ last'.args[1] = DestinationHint(Strip(form.destination))
                   /\ last'.args[2] = StrDate(form.start_date)
                   /\ last'.args[3] = StrDate(form.end_date)
              ELSE /\ last'.op = "plan" /\ last'.calls = << >>
                   /\ ui'.shown \in {<<"Please enter a destination.">>,
                                     <<"End date must be after start date.">>}
                   /\ Stores' = Stores]_vars

\* what a served chat page leaves in the browser-session history: the message, then
\* the answer unless the call raised
ChatHistoryKept ==
    ui'.chat_history =
        Append(ui.chat_history, <<"user", ui'.input.user_input>>)
        \o (IF last'.outcome = "raise" THEN << >> ELSE <<<<"agent", last'.ret>>>>)

\* C19 (as stated): a chat message sent through the dashboard is recorded only in
\* the browser-session chat history; handling it adds no conversation record and
\* changes no other record.
WebChatInSessionOnly ==
    [][PageServed("chat") => ChatHistoryKept /\ Stores' = Stores]_vars

\* C19 (amended): a chat message sent through the dashboard goes to
\* chat_with_agent with the agent_type "advisor". It is recorded in the
\* browser-session chat history, and also in the store: when a store is attached,
\* the agent answered and the write succeeded, exactly one conversation record of
\* the default user with agent_type "advisor", the message and the answer is
\* appended; otherwise the conversations stay as they were. Trips and preferences
\* are never changed.
WebChatRecorded ==
    [][PageServed("chat") =>
          LET message == ui'.input.user_input
              answered == last'.calls[1].ok
              saved == db /\ answered /\ last'.calls[2].ok
          IN  /\ last'.op = "chat_with_agent"
              /\ last'.args = <<message, "advisor">>
              /\ last'.calls[1].fn = "advisor_agent.run"
              /\ Len(last'.calls) = IF db /\ answered THEN 2 ELSE 1
              /\ (db /\ answered) => last'.calls[2].fn = "save_agent_memory"
              /\ ChatHistoryKept
              /\ user_preferences' = user_preferences
              /\ trip_history' = trip_history
              /\ IF saved
                 THEN /\ AppendedOne(agent_memory, agent_memory')
                      /\ LET doc == agent_memory'[Len(agent_memory')]
                         IN  /\ doc.user_id = DEFAULT_USER
                             /\ doc.agent_type = "advisor"
                             /\ doc.conversation = <<message>>
                             /\ doc.response = last'.ret
                 ELSE agent_memory' = agent_memory]_vars

\* C19 witness: the dashboard served a chat message, the exchange is in the
\* browser-session history and a conversation record holds it too
WebChatStored ==
    /\ ui.variant = PackageDashboard /\ ui.pc = "start" /\ ui.input.page = "chat"
    /\ ui.chat_history = <<<<"user", "hello">>, <<"agent", "R2">>>>
    /\ Len(agent_memory) = 1
    /\ agent_memory[1].agent_type = "advisor"
    /\ agent_memory[1].response = "R2"

\* the branches a menu can be made to take
Offered(variant) == {MenuOperation(variant, Join(Strip(typed))) : typed \in MenuChoices}

\* a round of a menu loop was served
MenuServed ==
    /\ ui.variant \in CliVariants
    /\ ui.pc = "menu"
    /\ ui'.input.page = "menu"

\* C20: in every menu front end the numbered choices reach the six session
\* operations, the environment diagnostics and the exit: at the menu there is
\* always a choice that ends the loop and the process; a round whose operation
\* raises prints the error and comes back to the menu; a choice the menu does not
\* know prints an error, changes nothing and comes back to the menu.
MenuLoopContract ==
    /\ [](ui.variant \in CliVariants /\ ui.pc = "menu" =>
             /\ SessionOps \subseteq Offered(ui.variant)
             /\ "diagnostics" \in Offered(ui.variant)
             /\ "exit" \in Offered(ui.variant))
    /\ [][MenuServed =>
             LET op == MenuOperation(ui.variant, Join(Strip(ui'.input.choice)))
             IN  /\ ui'.pc = IF op = "exit" THEN "exited" ELSE "menu"
                 /\ op \in SessionOps => last'.op = op
                 /\ last'.outcome = "raise" => ui'.shown = <<"Error">>
                 /\ op = "invalid" =>
                       /\ ui'.shown = <<"Invalid choice.">>
                       /\ last'.calls = << >>
                       /\ Stores' = Stores]_vars

\* whether the weather description of the last get_packing_list call contains the
\* keyword, letter case ignored
Mentions(keyword) == In(Chars(keyword), LowerCase(Chars(last.args[2])))

\* the returned list without the duration extras, when it ends with them
WithoutExtras(list) ==
    IF Len(list) >= 3 /\ SubSeq(list, Len(list) - 2, Len(list)) =
                            <<"laundry detergent", "extra underwear", "backup electronics">>
    THEN SubSeq(list, 1, Len(list) - 3)
    ELSE list

\* C21: for a description that contains "hot" or "sunny" in any letter case,
\* get_packing_list returns the essentials followed by the hot-gear items and no
\* item of the cold or rainy bucket, whatever else the description contains; at
\* most one bucket is appended, with priority hot, then cold, then rainy, and a
\* description with no keyword gets none.
HotBucketFirst ==
    last.op = "get_packing_list" =>
        LET essentials == <<"passport", "phone charger", "medications", "comfortable shoes">>
            hot == Mentions("hot") \/ Mentions("sunny")
            cold == Mentions("cold") \/ Mentions("snow")
            rainy == Mentions("rain")
            gear == IF hot THEN <<"sunscreen", "hat", "light clothing", "water bottle">>
                    ELSE IF cold THEN <<"warm jacket", "gloves", "hat", "thermal underwear">>
                    ELSE IF rainy THEN <<"umbrella", "waterproof jacket", "quick-dry clothes">>
                    ELSE << >>
        IN  /\ WithoutExtras(last.ret) = essentials \o gear
            /\ hot => {"warm jacket", "gloves", "thermal underwear", "umbrella",
                       "waterproof jacket", "quick-dry clothes"} \cap Range(last.ret) = {}

\* C21 witness: a description with "HOT" and "cold" got the hot bucket only
HotWinsOverCold ==
    /\ last.op = "get_packing_list"
    /\ last.args[2] = "HOT days, cold nights"
    /\ last.ret = <<"passport", "phone charger", "medications", "comfortable shoes",
                    "sunscreen", "hat", "light clothing", "water bottle">>

\* C22: with duration > 7 the list ends with the three duration extras, after the
\* weather bucket; with duration <= 7, exactly 7 included, it holds none of them.
DurationExtrasAboveSeven ==
    last.op = "get_packing_list" =>
        LET extras == <<"laundry detergent", "extra underwear", "backup electronics">>
            n == Len(last.ret)
        IN  IF last.args[3] > 7
            THEN /\ n >= 7
                 /\ SubSeq(last.ret, n - 2, n) = extras
                 /\ Range(extras) \cap Range(SubSeq(last.ret, 1, n - 3)) = {}
            ELSE Range(extras) \cap Range(last.ret) = {}

\* C22 witness: a trip of exactly seven days got a list without the extras, here
\* the essentials and the rainy bucket
SevenDaysNoExtras ==
    /\ last.op = "get_packing_list"
    /\ last.args[3] = 7
    /\ last.ret = <<"passport", "phone charger", "medications", "comfortable shoes",
                    "umbrella", "waterproof jacket", "quick-dry clothes">>

ForecastAnswered ==
    /\ last.op = "get_weather_forecast"
    /\ last.calls[1].out.kind = "ok"

\* the date stamp of a sample, and its day of the month as a number
DateOf(item) == Join(SubSeq(item.dt_txt, 1, 10))
DayOf(item) == CHOOSE day \in 0..99 : TwoDigits(day) = Join(SubSeq(item.dt_txt, 9, 10))

IsHeading(piece) == piece[1] = "\n# "

\* C24: for a forecast response whose samples have non-decreasing date stamps, the
\* rendered text has exactly one date heading per distinct date, the headings are
\* in input order, and every sample line comes after the heading of its own date
\* and before the next heading, the lines in input order.
ForecastGrouped ==
    ForecastAnswered =>
        LET items == last.calls[1].out.data.list
            pieces == Tail(last.ret)
            headings == SelectSeq(pieces, IsHeading)
            lines == SelectSeq(pieces, LAMBDA piece : ~IsHeading(piece))
            \* where the i-th sample line stands among the pieces
            Place(i) == CHOOSE k \in 1..Len(pieces) :
                            /\ ~IsHeading(pieces[k])
                            /\ Cardinality({j \in 1..k : ~IsHeading(pieces[j])}) = i
            \* the heading the k-th piece stands under
            Above(k) == CHOOSE h \in 1..k :
                            /\ IsHeading(pieces[h])
                            /\ \A j \in (h + 1)..k : ~IsHeading(pieces[j])
        IN  (\A i \in 1..(Len(items) - 1) : DayOf(items[i]) <= DayOf(items[i + 1])) =>
                /\ last.ret[1][1] = "Weather Forecast for "
                /\ Len(headings) = Cardinality({DateOf(items[i]) : i \in 1..Len(items)})
                /\ \A g, h \in 1..Len(headings) :
                      g < h => \E i, j \in 1..Len(items) :
                                  /\ i < j
                                  /\ headings[g][2] = DateOf(items[i])
                                  /\ headings[h][2] = DateOf(items[j])
                                  /\ DateOf(items[i]) # DateOf(items[j])
                /\ Len(lines) = Len(items)
                /\ \A i \in 1..Len(items) :
                      /\ lines[i][2] = Join(SubSeq(items[i].dt_txt, 12, 16))
                      /\ \E h \in 1..Place(i) : IsHeading(pieces[h])
                      /\ pieces[Above(Place(i))][2] = DateOf(items[i])

\* C24 witness: three samples, two of the first day and one of the second, were
\* rendered under two headings
TwoDaysTwoHeadings ==
    /\ ForecastAnswered
    /\ Len(last.calls[1].out.data.list) = 3
    /\ Len(last.ret) = 6
    /\ last.ret[2] = <<"\n# ", "2025-06-01", ":\n">>
    /\ last.ret[3] = <<"  ", "09:00", ": ", "21", "*C, ", "clear sky", "\n">>
    /\ last.ret[4] = <<"  ", "21:00", ": ", "21", "*C, ", "clear sky", "\n">>
    /\ last.ret[5] = <<"\n# ", "2025-06-02", ":\n">>

\* C25: get_weather_forecast sends one request, asking for cnt = min(days*8, 40)
\* samples: days*8 for days in 1..5, and for every other days a value clamped into
\* the range, so that cnt always lies between 8 and 40.
ForecastCountClamped ==
    last.op = "get_weather_forecast" =>
        LET days == last.args[2]
            cnt == last.calls[1].arg.cnt
        IN  /\ Len(last.calls) = 1
            /\ last.calls[1].arg.url = "/forecast"
            /\ days \in 1..5 => cnt = days * 8
            /\ cnt >= 8 /\ cnt <= 40

\* whether the text begins with "Error getting"
BeginsErrorGetting(text) ==
    /\ Len(text) >= 13
    /\ SubSeq(text, 1, 13) = <<"E", "r", "r", "o", "r", " ", "g", "e", "t", "t", "i", "n", "g">>

WeatherOps == {"get_current_weather", "get_weather_forecast", "get_weather_alerts"}

\* C26: the weather operations never raise. When the request fails in transport,
\* by its HTTP status or while the response is read (an empty or unknown city
\* included), get_current_weather and get_weather_forecast return a text that
\* begins "Error getting", and get_weather_alerts returns the error text of its
\* current-weather lookup unchanged, with no alert line and no "No weather alerts"
\* line.
WeatherFailuresReturned ==
    last.op \in WeatherOps =>
        LET response == last.calls[1].out
        IN  /\ last.outcome = "return"
            /\ Len(last.calls) = 1
            /\ last.args[1] = "" => response.kind # "ok"
            /\ response.kind # "ok" =>
                  /\ BeginsErrorGetting(last.ret)
                  /\ last.op # "get_weather_forecast" =>
                        last.ret = <<"E", "r", "r", "o", "r", " ", "g", "e", "t", "t", "i",
                                     "n", "g", " ", "w", "e", "a", "t", "h", "e", "r", " ",
                                     "d", "a", "t", "a", ":", " ">> \o response.error
                  /\ last.op = "get_weather_forecast" =>
                        SubSeq(last.ret, Len(last.ret) - Len(response.error) + 1,
                               Len(last.ret)) = response.error

\* C26 witness: get_weather_alerts for an empty city returned the error text of
\* the lookup the provider refused
AlertsReturnedLookupError ==
    /\ last.op = "get_weather_alerts"
    /\ last.args[1] = ""
    /\ last.calls[1].out.kind = "status"
    /\ BeginsErrorGetting(last.ret)
    /\ last.ret[Len(last.ret)] = "d"

\* C27: for a successful current-weather lookup, get_weather_alerts makes exactly
\* one lookup and derives its result from keywords of the rendered current-weather
\* text, all matched with letter case ignored: the rain/storm alert iff the text
\* contains "rain" or "storm", the snow alert iff it contains "snow", the high-wind
\* alert iff it contains both "wind" and "high"; with no alert the result is the
\* "No weather alerts" text, otherwise the alerts in the order rain/storm, snow,
\* wind.
AlertsFromKeywords ==
    (last.op = "get_weather_alerts" /\ last.calls[1].out.kind = "ok") =>
        LET lower == LowerCase(CurrentWeatherText(last.calls[1].out.data))
            rain == In(<<"r", "a", "i", "n">>, lower) \/ In(<<"s", "t", "o", "r", "m">>, lower)
            snow == In(<<"s", "n", "o", "w">>, lower)
            wind == In(<<"w", "i", "n", "d">>, lower) /\ In(<<"h", "i", "g", "h">>, lower)
            alerts == SelectSeq(last.ret, LAMBDA piece : piece \in {RainAlert, SnowAlert,
                                                                   WindAlert})
        IN  /\ Len(last.calls) = 1
            /\ alerts = (IF rain THEN <<RainAlert>> ELSE << >>)
                        \o (IF snow THEN <<SnowAlert>> ELSE << >>)
                        \o (IF wind THEN <<WindAlert>> ELSE << >>)
            /\ last.ret[1] = IF alerts = << >> THEN "No weather alerts for "
                             ELSE "Weather Alerts for "

\* C28: when the agent run of a session operation raises, the operation writes
\* nothing: it makes no store write, the agent run is its last call, and the three
\* collections (trips, conversations, preference records) are after the step
\* exactly what they were before it
AgentFailureWritesNothing ==
    [][(/\ \E op \in SessionOps : IsStep(op)
        /\ \E i \in 1..Len(last'.calls) :
              last'.calls[i].fn \in AgentFns /\ ~last'.calls[i].ok)
       => /\ Stores' = Stores
          /\ \A i \in 1..Len(last'.calls) : last'.calls[i].fn \notin WriteFns
          /\ last'.calls[Len(last'.calls)].fn \in AgentFns
          /\ Len(AgentCalls(last'.calls)) = 1]_vars

\* C28 witness: an agent run raised in a session whose store holds a trip and a
\* conversation written by an earlier operation
AgentRaisedOnFilledStore ==
    /\ db
    /\ last.op \in SessionOps
    /\ last.calls # << >>
    /\ last.calls[Len(last.calls)].fn \in AgentFns
    /\ ~last.calls[Len(last.calls)].ok
    /\ Len(trip_history) = 1 /\ Len(agent_memory) = 1

\* C29: a session constructed while the store could not be reached has no store,
\* and keeps none: from then on each of the six operations makes exactly one call,
\* its agent run, and returns the agent's text when the run returned;
\* get_database_stats and search_past_trips make no call and return their fixed
\* "Database not connected" texts; no step changes a collection or attaches a store
SessionWithoutStore ==
    [][~db =>
          /\ ~db'
          /\ Stores' = Stores
          /\ \A op \in SessionOps :
                IsStep(op) =>
                   /\ Len(last'.calls) = 1
                   /\ last'.calls[1].fn \in AgentFns
                   /\ last'.calls[1].ok =>
                         (last'.outcome = "return" /\ last'.ret = last'.calls[1].out)
          /\ IsStep("get_database_stats") =>
                /\ last'.calls = << >>
                /\ last'.outcome = "return"
                /\ last'.ret = <<"Database not connected. Using in-memory storage only.">>
          /\ IsStep("search_past_trips") =>
                /\ last'.calls = << >>
                /\ last'.outcome = "return"
                /\ last'.ret = <<"Database not connected. Cannot search past trips.">>]_vars

\* C29 witness: a session without a store answered a search with the fixed text
SearchWithoutStore ==
    /\ ~db
    /\ last.op = "search_past_trips"
    /\ last.calls = << >>
    /\ last.ret[1] = "Database not connected. Cannot search past trips."
    /\ Stores = <<<< >>, << >>, << >>>>

\* the piece of text that follows label
After(label, text) == text[(CHOOSE i \in 1..Len(text) : text[i] = label) + 1]

\* how many documents of the session user coll holds
OwnCount(coll) == Cardinality({i \in 1..Len(coll) : coll[i].user_id = DEFAULT_USER})

\* the reported totals are the unbounded counts of the three collections
TotalsUnbounded ==
    /\ After("Total Users: ", last.ret) = Str(Len(user_preferences))
    /\ After("Total Trips: ", last.ret) = Str(Len(trip_history))
    /\ After("Total Conversations: ", last.ret) = Str(Len(agent_memory))

\* C30, as stated: get_database_stats of a session with a store never raises; when
\* the store's stats call failed it returns an error text; otherwise the reported
\* trip count is min(number of the user's stored trips, 10), the reported
\* conversation count is min(number of the user's conversations, 20), and the
\* totals are the unbounded counts
StatsFiguresLimited ==
    (last.op = "get_database_stats" /\ db) =>
        /\ last.outcome = "return"
        /\ ~last.calls[1].ok => last.ret[1] = "Error getting database stats: "
        /\ last.calls[1].ok =>
              /\ TotalsUnbounded
              /\ After("Trip History: ", last.ret) = Str(Min(OwnCount(trip_history), 10))
              /\ After("Agent Conversations: ", last.ret)
                    = Str(Min(OwnCount(agent_memory), 20))

\* C30, amended: as above, with the per-user figures being the lengths of what the
\* two reads returned: min(number of the user's stored trips, 10) and min(number of
\* the user's conversations, 20) when the read went through, and 0 when the read
\* failed, because get_trip_history and get_agent_memory return [] in that case
StatsFiguresFromReads ==
    (last.op = "get_database_stats" /\ db) =>
        /\ last.outcome = "return"
        /\ Len(last.calls) = 4
        /\ ~last.calls[1].ok => last.ret[1] = "Error getting database stats: "
        /\ last.calls[1].ok =>
              /\ TotalsUnbounded
              /\ After("Trip History: ", last.ret) =
                    IF last.calls[2].ok THEN Str(Min(OwnCount(trip_history), 10)) ELSE "0"
              /\ After("Agent Conversations: ", last.ret) =
                    IF last.calls[4].ok THEN Str(Min(OwnCount(agent_memory), 20)) ELSE "0"

\* C30 witness: the store holds 11 trips and 21 conversations of the user and one
\* of each of another user; the report shows 10 and 20, and the totals 12 and 22
StatsCutAtLimits ==
    /\ last.op = "get_database_stats" /\ db
    /\ \A i \in 1..4 : last.calls[i].ok
    /\ OwnCount(trip_history) = 11 /\ OwnCount(agent_memory) = 21
    /\ After("Trip History: ", last.ret) = "10"
    /\ After("Agent Conversations: ", last.ret) = "20"
    /\ After("Total Trips: ", last.ret) = "12"
    /\ After("Total Conversations: ", last.ret) = "22"

====
